---- MODULE Spec2Model ----
(***************************************************************************)
(* Model of the prop-analyzer pipeline: OCR extraction into raw_ocr_bets,  *)
(* the review export/import loop, and the settlement run that fills        *)
(* game_stats, bet_results and unplayed_bets.                              *)
(*                                                                         *)
(* Conventions                                                             *)
(*   - a nullable column / a pandas NA is an option: <<>> is NULL/NA and   *)
(*     <<v>> is the value v;                                               *)
(*   - a bet line is the sequence of its characters (<<>> is NULL/NA);     *)
(*   - scores are kept in hundredths (25.00 is 2500), stat and line values *)
(*     in tenths (21.5 is 215), odds and payout deltas in units;           *)
(*   - the tables hold the COMMITTED rows of the SQLite file; the writes   *)
(*     of the settlement connection that are not yet committed are kept    *)
(*     in pending.                                                         *)
(***************************************************************************)
EXTENDS Integers, Sequences, FiniteSets, TLC

\* ------------------------------------------------------------------ bounds
\* number of raw_ocr_bets ids the AUTOINCREMENT counter may hand out
MaxBets == 3

\* ------------------------------------------------------- program constants
\* VALID_RANGES['score'] in hundredths, VALID_RANGES['odds']
ScoreLow == 2000
ScoreHigh == 10000
OddsLow == -1000
OddsHigh == 1000

\* TYPE_REPLACEMENTS.values(): the canonical settlement categories
CanonicalBetTypes ==
    {"rebs_asts", "pts_asts", "pts_rebs", "three_pointers", "par", "blocks",
     "steals", "turnovers", "points", "assists", "rebounds"}

Digits == {"0", "1", "2", "3", "4", "5", "6", "7", "8", "9"}

DigitVal(ch) ==
    CASE ch = "0" -> 0 [] ch = "1" -> 1 [] ch = "2" -> 2 [] ch = "3" -> 3
      [] ch = "4" -> 4 [] ch = "5" -> 5 [] ch = "6" -> 6 [] ch = "7" -> 7
      [] ch = "8" -> 8 [] ch = "9" -> 9

\* ----------------------------------------------------------------- options
NULL == <<>>
Some(v) == <<v>>
IsNull(o) == o = <<>>
Val(o) == o[1]

\* ------------------------------------------------------------- environment
\* the roster feed (players.get_active_players): full_name -> id
RosterFeed == {[name |-> "A", id |-> 1], [name |-> "B", id |-> 2]}

\* the dates that occur on slips, as clean_data writes them (YYYY-MM-DD)
Date1 == "2025-01-15"

\* GAME_DATE of the stats service ('%b %d, %Y') for a stored date
ApiGameDate(d) == CASE d = "2025-01-15" -> "Jan 15, 2025"
                    [] d = "2025-01-16" -> "Jan 16, 2025"
                    [] OTHER -> "?"

\* pd.to_datetime(GAME_DATE, format='%b %d, %Y').dt.strftime('%Y-%m-%d')
GameDateToIso(g) == CASE g = "Jan 15, 2025" -> "2025-01-15"
                      [] g = "Jan 16, 2025" -> "2025-01-16"
                      [] OTHER -> "?"

\* pd.to_datetime(date) succeeds
ParsesAsDate(d) == d \in {"2025-01-15", "2025-01-16"}

Images == {"img1", "img2"}

\* ------------------------------------------------------------- bet lines
\* the line pattern as it would be with \\d* for \\d+: no digit needed
MatchesLineFormatNoDigit(line) ==
    /\ Len(line) >= 3
    /\ line[1] \in {"o", "u"}
    /\ \A i \in 2..(Len(line) - 2) : line[i] \in Digits
    /\ line[Len(line) - 1] = "."
    /\ line[Len(line)] = "5"

\* re.match(r'^[ou]\d+\.5$', str(bet_line)): one of o/u, at least one
\* digit, then ".5" and nothing else
MatchesLineFormat(line) ==
    /\ Len(line) >= 4
    /\ line[1] \in {"o", "u"}
    /\ \A i \in 2..(Len(line) - 2) : line[i] \in Digits
    /\ line[Len(line) - 1] = "."
    /\ line[Len(line)] = "5"

RECURSIVE DigitsValue(_)
\* the number written by a sequence of digits
DigitsValue(ds) ==
    IF ds = <<>> THEN 0
    ELSE 10 * DigitsValue(SubSeq(ds, 1, Len(ds) - 1)) + DigitVal(ds[Len(ds)])

\* float(bet_line[1:]) in tenths; <<>> when float() raises ValueError.
\* Accepted here: digits, or digits "." digit (one decimal is all a stored
\* line carries).
LineValue(line) ==
    LET t == SubSeq(line, 2, Len(line))
        n == Len(t)
    IN  IF n >= 1 /\ \A i \in 1..n : t[i] \in Digits
        THEN Some(10 * DigitsValue(t))
        ELSE IF n >= 3 /\ t[n - 1] = "." /\ t[n] \in Digits
                /\ \A i \in 1..(n - 2) : t[i] \in Digits
        THEN Some(10 * DigitsValue(SubSeq(t, 1, n - 2)) + DigitVal(t[n]))
        ELSE NULL

LineO215 == <<"o", "2", "1", ".", "5">>
LineU215 == <<"u", "2", "1", ".", "5">>

\* ------------------------------------------------------------ classifier
\* The reasons of _bet_needs_review / bet_needs_review for one entry
\* [player, bet_type, score, bet_line, odds, date]; known is the set of
\* names the caller can resolve.  (The formatted values that the code
\* appends to a reason are left out of the reason tag.)
ReviewReasons(e, known) ==
    (IF IsNull(e.player) THEN {"Missing player name"} ELSE {})
    \cup (IF ~IsNull(e.player) /\ Val(e.player) \notin known
          THEN {"Player not found"} ELSE {})
    \cup (IF IsNull(e.bet_type) THEN {"Missing bet type"}
          ELSE IF Val(e.bet_type) \notin CanonicalBetTypes
          THEN {"Invalid bet type"} ELSE {})
    \cup (IF IsNull(e.score) THEN {"Missing score"}
          ELSE IF ~(ScoreLow <= Val(e.score) /\ Val(e.score) <= ScoreHigh)
          THEN {"Score out of expected range"} ELSE {})
    \cup (IF IsNull(e.bet_line) THEN {"Missing bet line"}
          ELSE IF ~MatchesLineFormat(e.bet_line)
          THEN {"Invalid bet line format"} ELSE {})
    \cup (IF IsNull(e.odds) THEN {"Missing odds"}
          ELSE IF ~(OddsLow <= Val(e.odds) /\ Val(e.odds) <= OddsHigh)
          THEN {"Odds out of expected range"} ELSE {})
    \cup (IF IsNull(e.date) THEN {"Missing date"}
          ELSE IF ~ParsesAsDate(Val(e.date))
          THEN {"Invalid date format"} ELSE {})

\* ImageProcessor._bet_needs_review: the verdict for one extracted entry
\* against the in-memory roster self.player_ids
BetNeedsReview(e, player_ids) ==
    ReviewReasons(e, {p.name : p \in player_ids}) # {}

\* ImageProcessor._image_needs_review: the OR over the entries of an image
ImageNeedsReview(entries, player_ids) ==
    \E i \in 1..Len(entries) : BetNeedsReview(entries[i], player_ids)

\* ------------------------------------------------------------------ state
VARIABLES
    players,        \* table players: [name, nba_api_id, is_active]
    raw_ocr_bets,   \* table raw_ocr_bets (the candidates), committed rows
    seq,            \* AUTOINCREMENT counter of raw_ocr_bets
    game_stats,     \* table game_stats, committed rows
    bet_results,    \* table bet_results, committed rows
    unplayed_bets,  \* table unplayed_bets, committed rows
    pc,             \* "idle" | "running" | "done": the settlement run
    todo,           \* the rows _get_unprocessed_bets returned, still to do
    pending,        \* ids whose UPDATE is_processed = 1 is not yet committed
    outcome,        \* how the last settlement run ended
    snap,           \* the committed tables when the run started (option)
    csv,            \* the last review table export_for_review wrote (option)
    last,           \* the call of process_image / update_reviewed_entries
                    \* that has not returned yet: what it did and returns
    answered,       \* the <<player_id, date>> of the candidates for which
                    \* the stats service has answered without a transport
                    \* error so far
    sheet,          \* the worksheet: cell -> value
    aggregated_results  \* table aggregated_results: cell -> stored value

vars == <<players, raw_ocr_bets, seq, game_stats, bet_results, unplayed_bets,
          pc, todo, pending, outcome, snap, csv, last, answered,
          sheet, aggregated_results>>

settleVars == <<pc, todo, pending, outcome, snap>>
statTables == <<game_stats, bet_results, unplayed_bets>>
uploadVars == <<sheet, aggregated_results>>

NoCall == [op |-> "none", image |-> "", ocr_called |-> FALSE,
           ret |-> "", rows |-> {}, ids |-> {}]

\* SHEET_CELL_MAPPING: the cell of a (bet_type, score_range, kind); one cell
\* per key
SheetCellMapping(bet_type, score_range, kind) == <<bet_type, score_range, kind>>

ScoreRanges == {"20-25", "25-30", "30-35", "35-40", "40-45", "45-50", "50+"}

SheetCells ==
    {SheetCellMapping(bt, sr, k) :
        bt \in {"points", "par"}, sr \in ScoreRanges, k \in {"Result", "Volume"}}

\* a worksheet whose cells are all 0, and aggregated_results without rows
EmptySheet == [c \in SheetCells |-> 0]
NoAggregates == [c \in SheetCells |-> NULL]

\* init_database followed by _cache_player_data on the first roster feed
Init ==
    /\ players = {[name |-> p.name, nba_api_id |-> p.id, is_active |-> 1] :
                    p \in RosterFeed}
    /\ raw_ocr_bets = {}
    /\ seq = 0
    /\ game_stats = {}
    /\ bet_results = {}
    /\ unplayed_bets = {}
    /\ pc = "idle"
    /\ todo = <<>>
    /\ pending = {}
    /\ outcome = "none"
    /\ snap = NULL
    /\ csv = NULL
    /\ last = NoCall
    /\ answered = {}
    /\ sheet = EmptySheet
    /\ aggregated_results = NoAggregates

\* --------------------------------------------------------------- extraction
\* One cleaned entry of a slip, as clean_data returns it
Entry(player, bet_type, line, odds, score) ==
    [player |-> player, bet_type |-> Some(bet_type), score |-> Some(score),
     bet_line |-> line, odds |-> Some(odds), date |-> Some(Date1)]

\* What clean_data(_extract_bet_data(text)) can be for the OCR text of an
\* image: the entries of one slip share date and bet type.  <<>> stands for
\* every way of getting no entries (OCR failure, no date, no score pattern,
\* an exception in clean_data).
SlipReads ==
    { <<>>,
      <<Entry(Some("A"), "points", LineO215, -150, 2500)>>,
      <<Entry(Some("A"), "par", LineO215, 120, 2500),
        Entry(Some("B"), "par", LineU215, -150, 5500)>>,
      <<Entry(Some("B"), "points", LineU215, 120, 2500),
        Entry(Some("Z"), "points", LineO215, -150, 3000)>>,
      <<Entry(NULL, "points", LineO215, -150, 2500)>> }

\* self.player_ids.get(player_name): the roster id of a name, NULL if the
\* name is NA or not in the roster
RosterId(player, player_ids) ==
    IF IsNull(player) \/ ~\E p \in player_ids : p.name = Val(player)
    THEN NULL
    ELSE Some((CHOOSE p \in player_ids : p.name = Val(player)).id)

\* raw_ocr_bets as it would be without the UNIQUE constraint: no insert is
\* ever a duplicate
SameWagerKeyUnconstrained(a, b) == FALSE

\* UNIQUE(player_id, date, bet_type, score) of raw_ocr_bets: SQLite takes a
\* NULL to differ from every value, another NULL included
SameWagerKey(a, b) ==
    /\ ~IsNull(a.player_id) /\ a.player_id = b.player_id
    /\ ~IsNull(a.date) /\ a.date = b.date
    /\ ~IsNull(a.bet_type) /\ a.bet_type = b.bet_type
    /\ ~IsNull(a.score) /\ a.score = b.score

\* the row that the INSERT of _save_to_database writes for one entry
NewBetRow(id, e, img, flag, player_ids) ==
    [id |-> id, player_id |-> RosterId(e.player, player_ids),
     bet_type |-> e.bet_type, score |-> e.score, date |-> e.date,
     bet_line |-> e.bet_line, odds |-> e.odds, image_source |-> img,
     is_processed |-> 0, needs_review |-> flag, is_voided |-> 0]

RECURSIVE SaveEntries(_, _, _, _, _, _, _)
\* the loop of _save_to_database from entry i on: INSERT OR IGNORE, one
\* commit per entry.  An ignored insert takes no id here.
SaveEntries(rows, next, entries, i, img, flag, player_ids) ==
    IF i > Len(entries) THEN [rows |-> rows, seq |-> next]
    ELSE LET row == NewBetRow(next + 1, entries[i], img, flag, player_ids)
         IN  IF \E r \in rows : SameWagerKey(r, row)
             THEN SaveEntries(rows, next, entries, i + 1, img, flag, player_ids)
             ELSE SaveEntries(rows \cup {row}, next + 1, entries, i + 1, img,
                              flag, player_ids)

\* _save_to_database: one review flag for the image, then the inserts
SaveToDatabase(rows, next, entries, img, player_ids) ==
    SaveEntries(rows, next, entries, 1, img,
                IF ImageNeedsReview(entries, player_ids) THEN 1 ELSE 0,
                player_ids)

\* the SELECT of _get_existing_data
ExistingData(img) ==
    {r \in raw_ocr_bets : r.image_source = img /\ r.needs_review = 0}

\* process_image(img) as it would be without the early return: the stored
\* rows of the image are dropped and the OCR runs (and reads nothing)
ProcessImageRescans(img) ==
    /\ pc = "idle" /\ last = NoCall
    /\ ExistingData(img) # {}
    /\ raw_ocr_bets' = {r \in raw_ocr_bets : r.image_source # img}
    /\ last' = [op |-> "process_image", image |-> img, ocr_called |-> TRUE,
                ret |-> "None", rows |-> {}, ids |-> {}]
    /\ UNCHANGED <<players, seq, csv>>
    /\ UNCHANGED statTables
    /\ UNCHANGED settleVars
    /\ UNCHANGED answered
    /\ UNCHANGED uploadVars

\* process_image(img) when _get_existing_data finds unflagged rows: they
\* are returned, nothing else happens
ProcessImageExisting(img) ==
    /\ pc = "idle" /\ last = NoCall
    /\ ExistingData(img) # {}
    /\ last' = [op |-> "process_image", image |-> img, ocr_called |-> FALSE,
                ret |-> "existing", rows |-> ExistingData(img),
                ids |-> {}]
    /\ UNCHANGED <<players, raw_ocr_bets, seq, csv>>
    /\ UNCHANGED statTables
    /\ UNCHANGED settleVars
    /\ UNCHANGED answered
    /\ UNCHANGED uploadVars

\* process_image(img) otherwise: _get_existing_data deletes the rows of the
\* image (the schema's ON DELETE CASCADE is inert: no connection turns
\* foreign_keys on), the OCR runs, and the entries read are saved
ProcessImageFresh(img, entries) ==
    /\ pc = "idle" /\ last = NoCall
    /\ ExistingData(img) = {}
    /\ seq + Len(entries) <= MaxBets
    /\ LET kept == {r \in raw_ocr_bets : r.image_source # img}
           saved == SaveToDatabase(kept, seq, entries, img, RosterFeed)
       IN  /\ raw_ocr_bets' = saved.rows
           /\ seq' = saved.seq
           /\ last' = [op |-> "process_image", image |-> img,
                       ocr_called |-> TRUE,
                       ret |-> IF entries = <<>> THEN "None" ELSE "extracted",
                       rows |-> {}, ids |-> {}]
    /\ UNCHANGED <<players, csv>>
    /\ UNCHANGED statTables
    /\ UNCHANGED settleVars
    /\ UNCHANGED answered
    /\ UNCHANGED uploadVars

\* ------------------------------------------------------------ review loop
\* p.name of the LEFT JOIN players p ON r.player_id = p.nba_api_id
PlayerName(player_id, plist) ==
    IF IsNull(player_id) \/ ~\E p \in plist : p.nba_api_id = Val(player_id)
    THEN NULL
    ELSE Some((CHOOSE p \in plist : p.nba_api_id = Val(player_id)).name)

\* get_entries_for_review: the flagged, non-voided rows as the table shows
\* them (diagnostic columns left out)
EntriesForReview(rows, plist) ==
    {[id |-> r.id, date |-> r.date, bet_type |-> r.bet_type,
      score |-> r.score, bet_line |-> r.bet_line, odds |-> r.odds,
      player |-> PlayerName(r.player_id, plist),
      image_source |-> r.image_source] :
        r \in {x \in rows : x.needs_review = 1 /\ x.is_voided = 0}}

\* export_for_review: nothing is written when no entry needs review, so an
\* earlier file stays as it is
ExportedFile(rows, plist, old) ==
    IF EntriesForReview(rows, plist) = {} THEN old
    ELSE Some(EntriesForReview(rows, plist))

ExportForReview ==
    /\ pc = "idle" /\ last = NoCall
    /\ csv' = ExportedFile(raw_ocr_bets, players, csv)
    /\ last' = NoCall
    /\ UNCHANGED <<players, raw_ocr_bets, seq>>
    /\ UNCHANGED statTables
    /\ UNCHANGED settleVars
    /\ UNCHANGED answered
    /\ UNCHANGED uploadVars

\* What the human does to one row of the table
EditNames == {"keep", "playerA", "playerB", "lowScore"}

\* the edits of the review harness: the date column can be edited as well
ReviewEditNames == EditNames \cup {"nextDay"}

ApplyEdit(row, edit) ==
    CASE edit = "keep"     -> row
      [] edit = "playerA"  -> [row EXCEPT !.player = Some("A")]
      [] edit = "playerB"  -> [row EXCEPT !.player = Some("B")]
      [] edit = "lowScore" -> [row EXCEPT !.score = Some(1500)]
      [] edit = "nextDay"  -> [row EXCEPT !.date = Some("2025-01-16")]

\* the tables a human can hand back for an exported file: any subset of
\* its rows, each as exported or edited
EditedTablesWith(file, edits) ==
    LET ids == {x.id : x \in file}
        rowOf(i) == CHOOSE x \in file : x.id = i
    IN  UNION {{{ApplyEdit(rowOf(i), f[i]) : i \in K} : f \in [K -> edits]} :
                 K \in SUBSET ids}

EditedTables(file) == EditedTablesWith(file, EditNames)

\* the UPDATE of update_reviewed_entries for a table row that passed
CorrectedRow(r, b, plist) ==
    [r EXCEPT !.needs_review = 0,
              !.player_id =
                  Some((CHOOSE p \in plist : p.name = Val(b.player)).nba_api_id),
              !.bet_type = b.bet_type,
              !.score = b.score,
              !.bet_line = b.bet_line,
              !.odds = b.odds]

\* MergeOne without the branch "if not needs_review": a row of a known player
\* is written whatever the classifier said
MergeOneForced(rows, b, plist) ==
    LET names == {p.name : p \in plist}
        hit == {r \in rows : r.id = b.id}
    IN  IF IsNull(b.player) \/ Val(b.player) \notin names THEN rows
        ELSE IF hit = {} THEN rows
        ELSE LET r == CHOOSE x \in hit : TRUE
                 new == CorrectedRow(r, b, plist)
             IN  IF \E o \in rows \ {r} : SameWagerKey(o, new) THEN rows
                 ELSE (rows \ {r}) \cup {new}

\* One pass of the loop "for _, bet in csv_df.iterrows()".  The row is left
\* alone when bet_needs_review or the player lookup raises (fetchone() is
\* None for a name that is not in players), when the classifier still has
\* reasons, when no stored row has the id, or when the UPDATE hits the
\* UNIQUE constraint.
MergeOne(rows, b, plist) ==
    LET names == {p.name : p \in plist}
        hit == {r \in rows : r.id = b.id}
    IN  IF ~IsNull(b.player) /\ Val(b.player) \notin names THEN rows
        ELSE IF ReviewReasons(b, names) # {} THEN rows
        ELSE IF hit = {} THEN rows
        ELSE LET r == CHOOSE x \in hit : TRUE
                 new == CorrectedRow(r, b, plist)
             IN  IF \E o \in rows \ {r} : SameWagerKey(o, new) THEN rows
                 ELSE (rows \ {r}) \cup {new}

RECURSIVE MergeRows(_, _, _)
\* the loop over the table rows, in the order of the file (by id)
MergeRows(rows, table, plist) ==
    IF table = {} THEN rows
    ELSE LET b == CHOOSE x \in table : \A y \in table : x.id <= y.id
         IN  MergeRows(MergeOne(rows, b, plist), table \ {b}, plist)

\* "deleted_ids": flagged, non-voided ids that the table does not list
DeletedIds(rows, table) ==
    {r.id : r \in {x \in rows : x.needs_review = 1 /\ x.is_voided = 0}}
        \ {b.id : b \in table}

\* the UPDATE ... SET is_voided = 1 WHERE id IN (deleted_ids)
VoidRows(rows, ids) ==
    {IF r.id \in ids THEN [r EXCEPT !.is_voided = 1] ELSE r : r \in rows}

\* the rows of raw_ocr_bets after update_reviewed_entries(table)
ReviewedRows(rows, table, plist) ==
    IF table = {} THEN rows
    ELSE MergeRows(VoidRows(rows, DeletedIds(rows, table)), table, plist)

\* update_reviewed_entries on a table the human made from the last export;
\* an empty table returns before anything is done, otherwise the merge is
\* followed by a fresh export.  The call record keeps the ids of the table
\* and the rows `kept` of it.
ImportReviewed(table, kept) ==
    /\ pc = "idle" /\ last = NoCall
    /\ raw_ocr_bets' = ReviewedRows(raw_ocr_bets, table, players)
    /\ csv' = IF table = {} THEN csv
              ELSE ExportedFile(raw_ocr_bets', players, csv)
    /\ last' = [op |-> "update_reviewed_entries", image |-> "",
                ocr_called |-> FALSE, ret |-> "", rows |-> kept,
                ids |-> {b.id : b \in table}]
    /\ UNCHANGED <<players, seq>>
    /\ UNCHANGED statTables
    /\ UNCHANGED settleVars
    /\ UNCHANGED answered
    /\ UNCHANGED uploadVars

UpdateReviewedEntries(table) == ImportReviewed(table, {})

\* --------------------------------------------------------------- settlement
\* Rows of the game log the stats service can return (values in tenths)
ApiRow(game_date, pts, ast, reb) ==
    [GAME_DATE |-> game_date, PTS |-> pts, AST |-> ast, REB |-> reb,
     BLK |-> 10, STL |-> 20, TOV |-> 30, FG3M |-> 40]

\* The answers of playergamelog.PlayerGameLog(...).get_data_frames(): a
\* transport failure, or a game log: empty, without the date of the slips,
\* or with it.  On Jan 15 the player has 18 points and 23 points + rebounds
\* + assists, so that a line of 21.5 is won and lost in both directions.
ApiAnswers ==
    {[kind |-> "timeout", log |-> {}]} \cup
    {[kind |-> "ok", log |-> l] :
        l \in { {},
                {ApiRow("Jan 16, 2025", 300, 50, 50)},
                {ApiRow("Jan 15, 2025", 180, 20, 30),
                 ApiRow("Jan 16, 2025", 300, 50, 50)} }}

\* a game log whose row for the date of the slips is not in whole numbers:
\* 21.5 points and 21.5 points + rebounds + assists
TieAnswers ==
    {[kind |-> "ok", log |-> {ApiRow("Jan 15, 2025", 215, 0, 0)}]}

\* _standardize_stat_names: renamed counting stats and the four composites
StandardizeStatNames(api) ==
    [points |-> api.PTS, assists |-> api.AST, rebounds |-> api.REB,
     blocks |-> api.BLK, steals |-> api.STL, turnovers |-> api.TOV,
     three_pointers |-> api.FG3M,
     par |-> api.PTS + api.REB + api.AST,
     pts_rebs |-> api.PTS + api.REB,
     pts_asts |-> api.PTS + api.AST,
     rebs_asts |-> api.REB + api.AST]

\* the unit loss cut off towards zero instead of rounded
UnitLossTruncated(odds) == -(10000 \div odds)

\* -np.round(100 / (odds / 100), 0) for odds > 0: round half to even
UnitLoss(odds) ==
    LET q == 10000 \div odds
        r == 10000 % odds
    IN  IF 2 * r < odds THEN -q
        ELSE IF 2 * r > odds THEN -(q + 1)
        ELSE IF q % 2 = 0 THEN -q ELSE -(q + 1)

\* result_delta of _calculate_results
ResultDelta(result, odds) ==
    IF result = "Win" THEN 100
    ELSE IF odds > 0 THEN UnitLoss(odds) ELSE odds

\* the Win / Loss / Push expression with every bet read as an Over
BetResultAsOver(stat_value, line_value, over_under) ==
    IF stat_value > line_value THEN "Win"
    ELSE IF stat_value < line_value THEN "Loss"
    ELSE "Push"

\* the Win / Loss / Push expression of _calculate_results (values in tenths)
BetResult(stat_value, line_value, over_under) ==
    IF (stat_value > line_value /\ over_under = "Over")
       \/ (stat_value < line_value /\ over_under = "Under") THEN "Win"
    ELSE IF (stat_value < line_value /\ over_under = "Over")
            \/ (stat_value > line_value /\ over_under = "Under") THEN "Loss"
    ELSE "Push"

\* _calculate_results as it would be without "raise ValueError" on a push
CalculateResultsKeepsPush(c, stats) ==
    LET failed == [raised |-> TRUE, result |-> "", result_delta |-> 0,
                   stat_value |-> 0, line_value |-> 0, over_under |-> ""]
    IN  IF IsNull(c.bet_type) \/ IsNull(c.odds) \/ IsNull(c.bet_line)
        THEN failed
        ELSE IF Val(c.bet_type) \notin DOMAIN stats THEN failed
        ELSE IF IsNull(LineValue(c.bet_line)) THEN failed
        ELSE IF c.bet_line[1] \notin {"o", "u"} THEN failed
        ELSE LET stat_value == stats[Val(c.bet_type)]
                 line_value == Val(LineValue(c.bet_line))
                 over_under == IF c.bet_line[1] = "o" THEN "Over" ELSE "Under"
                 result == BetResult(stat_value, line_value, over_under)
             IN  [raised |-> FALSE, result |-> result,
                  result_delta |-> ResultDelta(result, Val(c.odds)),
                  stat_value |-> stat_value, line_value |-> line_value,
                  over_under |-> over_under]

\* _calculate_results for the snapshot row c and a stats record: the tuple
\* it returns, or raised = TRUE (KeyError, ValueError of float(), a line
\* that starts with neither o nor u, a push)
CalculateResults(c, stats) ==
    LET failed == [raised |-> TRUE, result |-> "", result_delta |-> 0,
                   stat_value |-> 0, line_value |-> 0, over_under |-> ""]
    IN  IF IsNull(c.bet_type) \/ IsNull(c.odds) \/ IsNull(c.bet_line)
        THEN failed
        ELSE IF Val(c.bet_type) \notin DOMAIN stats THEN failed
        ELSE IF IsNull(LineValue(c.bet_line)) THEN failed
        ELSE IF c.bet_line[1] \notin {"o", "u"} THEN failed
        ELSE LET stat_value == stats[Val(c.bet_type)]
                 line_value == Val(LineValue(c.bet_line))
                 over_under == IF c.bet_line[1] = "o" THEN "Over" ELSE "Under"
                 result == BetResult(stat_value, line_value, over_under)
             IN  IF result = "Push" THEN failed
                 ELSE [raised |-> FALSE, result |-> result,
                       result_delta |-> ResultDelta(result, Val(c.odds)),
                       stat_value |-> stat_value, line_value |-> line_value,
                       over_under |-> over_under]

\* the buckets as they would be with the upper bound included
CalculateScoreRangeClosed(score) ==
    IF score < 2000 THEN "raise"
    ELSE IF score <= 2500 THEN "20-25"
    ELSE IF score <= 3000 THEN "25-30"
    ELSE IF score <= 3500 THEN "30-35"
    ELSE IF score <= 4000 THEN "35-40"
    ELSE IF score <= 4500 THEN "40-45"
    ELSE IF score <= 5000 THEN "45-50"
    ELSE "50+"

\* _calculate_score_range (score in hundredths); "raise" below 20
CalculateScoreRange(score) ==
    IF score < 2000 THEN "raise"
    ELSE IF score < 2500 THEN "20-25"
    ELSE IF score < 3000 THEN "25-30"
    ELSE IF score < 3500 THEN "30-35"
    ELSE IF score < 4000 THEN "35-40"
    ELSE IF score < 4500 THEN "40-45"
    ELSE IF score < 5000 THEN "45-50"
    ELSE "50+"

\* _get_unprocessed_bets as it would be with WHERE is_processed = 0 alone
UnprocessedBetsAnyFlag ==
    {[id |-> r.id, player_id |-> r.player_id, bet_type |-> r.bet_type,
      score |-> r.score, date |-> r.date, bet_line |-> r.bet_line,
      odds |-> r.odds] :
        r \in {x \in raw_ocr_bets : x.is_processed = 0}}

\* _get_unprocessed_bets: what the run reads of the rows it will settle
UnprocessedBets ==
    {[id |-> r.id, player_id |-> r.player_id, bet_type |-> r.bet_type,
      score |-> r.score, date |-> r.date, bet_line |-> r.bet_line,
      odds |-> r.odds] :
        r \in {x \in raw_ocr_bets : x.is_processed = 0 /\ x.needs_review = 0
                                     /\ x.is_voided = 0}}

RECURSIVE ById(_)
\* a set of rows as the sequence iterrows() walks, by id
ById(rows) ==
    IF rows = {} THEN <<>>
    ELSE LET first == CHOOSE x \in rows : \A y \in rows : x.id <= y.id
         IN  <<first>> \o ById(rows \ {first})

\* a commit that would also void the rows it marks
FlushAndVoid(rows, ids) ==
    {IF r.id \in ids THEN [r EXCEPT !.is_processed = 1, !.is_voided = 1]
     ELSE r : r \in rows}

\* conn.commit() as far as raw_ocr_bets goes: the pending UPDATEs of
\* _mark_bet_processed become part of the file
Flush(rows, ids) ==
    {IF r.id \in ids THEN [r EXCEPT !.is_processed = 1] ELSE r : r \in rows}

\* _get_cached_stats: the game_stats rows of the bet's player and date
CachedStats(c) ==
    {g \in game_stats : Some(g.player_id) = c.player_id /\ Some(g.date) = c.date}

\* _in_unplayed_bets: some candidate of this player and date joins an
\* unplayed_bets row of the same player and date
InUnplayedBets(c) ==
    \E r \in raw_ocr_bets, u \in unplayed_bets :
        /\ r.player_id = Some(u.player_id) /\ r.date = Some(u.date)
        /\ r.player_id = c.player_id /\ r.date = c.date

\* the row insert_into_game_stats writes
NewGameStats(c, stats) ==
    [id |-> Cardinality(game_stats) + 1, player_id |-> Val(c.player_id),
     date |-> Val(c.date), stats |-> stats]

\* _get_game_stats_id, asked after the insert
GameStatsId(c, gs) ==
    (CHOOSE g \in gs : Some(g.player_id) = c.player_id /\ Some(g.date) = c.date).id

\* the row insert_into_bet_results writes
NewBetResult(c, calc, gs) ==
    [raw_bet_id |-> c.id, player_id |-> Val(c.player_id),
     game_stats_id |-> GameStatsId(c, gs), bet_type |-> Val(c.bet_type),
     result |-> calc.result, result_delta |-> calc.result_delta,
     score_range |-> CalculateScoreRange(Val(c.score)),
     over_under |-> calc.over_under, stat_result |-> calc.stat_value,
     line_value |-> calc.line_value, is_uploaded |-> 0]

\* process_new_bets up to the loop of _process_unprocessed_bets: the
\* candidates are read once, in a connection with nothing pending
StartRun ==
    /\ pc = "idle" /\ last = NoCall
    /\ pc' = "running"
    /\ todo' = ById(UnprocessedBets)
    /\ pending' = {}
    /\ outcome' = "none"
    /\ snap' = Some([raw |-> raw_ocr_bets, gs |-> game_stats,
                     br |-> bet_results, up |-> unplayed_bets])
    /\ last' = NoCall
    /\ UNCHANGED <<players, raw_ocr_bets, seq, csv, answered>>
    /\ UNCHANGED statTables
    /\ UNCHANGED uploadVars

\* The branch "stats exist" of the loop body (insert_into_game_stats when
\* the stats came from the service, insert_into_bet_results,
\* _mark_bet_processed) as the tables it leaves.  Each "with self.conn"
\* that ends well commits whatever is pending; the one of
\* insert_into_bet_results rolls the pending UPDATEs back when its INSERT
\* hits UNIQUE(raw_bet_id).  An exception of _calculate_results or
\* _calculate_score_range is raised before that block is entered.
StatsBranch(c, stats, in_db) ==
    LET gs1 == IF in_db THEN game_stats
               ELSE game_stats \cup {NewGameStats(c, stats)}
        raw1 == IF in_db THEN raw_ocr_bets ELSE Flush(raw_ocr_bets, pending)
        pend1 == IF in_db THEN pending ELSE {}
        calc == CalculateResults(c, stats)
    IN  IF calc.raised \/ IsNull(c.score)
           \/ CalculateScoreRange(Val(c.score)) = "raise"
        THEN [raw |-> raw1, gs |-> gs1, br |-> bet_results, pend |-> pend1]
        ELSE IF \E b \in bet_results : b.raw_bet_id = c.id
        THEN [raw |-> raw1, gs |-> gs1, br |-> bet_results, pend |-> {}]
        ELSE [raw |-> Flush(raw1, pend1), gs |-> gs1,
              br |-> bet_results \cup {NewBetResult(c, calc, gs1)},
              pend |-> {c.id}]

\* The branch "game_stats is None" of the loop body: insert_into_unplayed_bets
\* (INSERT OR IGNORE, committed with whatever is pending), then
\* _mark_bet_processed
UnplayedBranch(c) ==
    /\ raw_ocr_bets' = Flush(raw_ocr_bets, pending)
    /\ unplayed_bets' =
           IF \E u \in unplayed_bets : u.raw_bet_id = c.id THEN unplayed_bets
           ELSE unplayed_bets \cup
                {[raw_bet_id |-> c.id, player_id |-> Val(c.player_id),
                  date |-> Val(c.date)]}
    /\ pending' = {c.id}
    /\ todo' = Tail(todo)
    /\ UNCHANGED <<players, seq, csv, last, game_stats, bet_results,
                   pc, outcome, snap>>
    /\ UNCHANGED uploadVars

\* the loop goes on with the tables a StatsBranch left
TakeStatsBranch(b) ==
    /\ raw_ocr_bets' = b.raw
    /\ game_stats' = b.gs
    /\ bet_results' = b.br
    /\ pending' = b.pend
    /\ todo' = Tail(todo)
    /\ UNCHANGED <<players, seq, csv, last, unplayed_bets, pc, outcome, snap>>
    /\ UNCHANGED uploadVars

\* loop body, the stats are in game_stats
SettleFromCache ==
    /\ pc = "running" /\ todo # <<>>
    /\ LET c == Head(todo)
       IN  /\ CachedStats(c) # {}
           /\ UNCHANGED answered
           /\ TakeStatsBranch(
                  StatsBranch(c, (CHOOSE g \in CachedStats(c) : TRUE).stats, TRUE))

\* loop body, the player and date are known as unplayed
SettleKnownUnplayed ==
    /\ pc = "running" /\ todo # <<>>
    /\ LET c == Head(todo)
       IN  /\ CachedStats(c) = {}
           /\ InUnplayedBets(c)
           /\ UNCHANGED answered
           /\ UnplayedBranch(c)

\* the rows of a game log for the date of the bet
RowsOfDate(log, c) ==
    {g \in log : Some(GameDateToIso(g.GAME_DATE)) = c.date}

AsksService(c) == CachedStats(c) = {} /\ ~InUnplayedBets(c)

\* loop body, _get_api_stats returns the stats of the date
SettleApiGame(ans) ==
    /\ pc = "running" /\ todo # <<>>
    /\ LET c == Head(todo)
       IN  /\ AsksService(c)
           /\ ans.kind = "ok"
           /\ RowsOfDate(ans.log, c) # {}
           /\ answered' = answered \cup {<<c.player_id, c.date>>}
           /\ TakeStatsBranch(
                  StatsBranch(c, StandardizeStatNames(
                                     CHOOSE g \in RowsOfDate(ans.log, c) : TRUE),
                              FALSE))

\* loop body, the game log has rows but none for the date: None
SettleApiNoGame(ans) ==
    /\ pc = "running" /\ todo # <<>>
    /\ LET c == Head(todo)
       IN  /\ AsksService(c)
           /\ ans.kind = "ok"
           /\ ans.log # {}
           /\ RowsOfDate(ans.log, c) = {}
           /\ answered' = answered \cup {<<c.player_id, c.date>>}
           /\ UnplayedBranch(c)

\* loop body, the game log is empty: _get_api_stats raises ValueError, which
\* the loop catches; the candidate is skipped
SettleApiEmptyLog(ans) ==
    /\ pc = "running" /\ todo # <<>>
    /\ AsksService(Head(todo))
    /\ ans.kind = "ok"
    /\ ans.log = {}
    /\ answered' = answered \cup {<<Head(todo).player_id, Head(todo).date>>}
    /\ todo' = Tail(todo)
    /\ UNCHANGED <<players, raw_ocr_bets, seq, csv, last, pc, pending, outcome,
                   snap>>
    /\ UNCHANGED statTables
    /\ UNCHANGED uploadVars

\* SettleApiTimeout with the transport error handled like any other
\* exception of the loop body: the candidate is skipped and the run goes on
SettleApiTimeoutSkips(ans) ==
    /\ pc = "running" /\ todo # <<>>
    /\ AsksService(Head(todo))
    /\ ans.kind = "timeout"
    /\ todo' = Tail(todo)
    /\ UNCHANGED <<players, raw_ocr_bets, seq, csv, last, pc, pending, outcome,
                   snap, answered>>
    /\ UNCHANGED statTables
    /\ UNCHANGED uploadVars

\* loop body, the service raises Timeout / RequestException: _get_api_stats
\* calls quit(); SystemExit passes both "except Exception" handlers, the
\* process ends and the pending UPDATEs are lost with the connection
SettleApiTimeout(ans) ==
    /\ pc = "running" /\ todo # <<>>
    /\ AsksService(Head(todo))
    /\ ans.kind = "timeout"
    /\ pc' = "done"
    /\ outcome' = "exit"
    /\ pending' = {}
    /\ UNCHANGED <<players, raw_ocr_bets, seq, csv, last, todo, snap,
                   answered>>
    /\ UNCHANGED statTables
    /\ UNCHANGED uploadVars

\* after the loop: self.conn.commit(), return True
FinishRun ==
    /\ pc = "running" /\ todo = <<>>
    /\ raw_ocr_bets' = Flush(raw_ocr_bets, pending)
    /\ pending' = {}
    /\ pc' = "done"
    /\ outcome' = "True"
    /\ UNCHANGED <<players, seq, csv, last, todo, snap, answered>>
    /\ UNCHANGED statTables
    /\ UNCHANGED uploadVars

\* the caller has seen how the run ended
ReturnFromRun ==
    /\ pc = "done"
    /\ pc' = "idle"
    /\ todo' = <<>>
    /\ outcome' = "none"
    /\ snap' = NULL
    /\ UNCHANGED <<players, raw_ocr_bets, seq, csv, last, pending,
                   answered>>
    /\ UNCHANGED statTables
    /\ UNCHANGED uploadVars

\* a call of process_image or update_reviewed_entries has returned and the
\* caller has its result
ReturnFromCall ==
    /\ pc = "idle"
    /\ last # NoCall
    /\ last' = NoCall
    /\ UNCHANGED <<players, raw_ocr_bets, seq, csv>>
    /\ UNCHANGED statTables
    /\ UNCHANGED settleVars
    /\ UNCHANGED answered
    /\ UNCHANGED uploadVars

Next ==
    \/ \E img \in Images : ProcessImageExisting(img)
    \/ \E img \in Images, entries \in SlipReads : ProcessImageFresh(img, entries)
    \/ ExportForReview
    \/ \E table \in EditedTables(IF IsNull(csv) THEN {} ELSE Val(csv)) :
           UpdateReviewedEntries(table)
    \/ StartRun
    \/ SettleFromCache
    \/ SettleKnownUnplayed
    \/ \E ans \in ApiAnswers : SettleApiGame(ans)
    \/ \E ans \in ApiAnswers : SettleApiNoGame(ans)
    \/ \E ans \in ApiAnswers : SettleApiEmptyLog(ans)
    \/ \E ans \in ApiAnswers : SettleApiTimeout(ans)
    \/ FinishRun
    \/ ReturnFromRun
    \/ ReturnFromCall

Spec == Init /\ [][Next]_vars

\* ------------------------------------------------- settlement of any odds
\* A store as process_image leaves it for a slip with one valid wager of
\* player A on Date1, for every odds value the classifier accepts
OneBetStored(odds_set) ==
    /\ players = {[name |-> p.name, nba_api_id |-> p.id, is_active |-> 1] :
                    p \in RosterFeed}
    /\ \E odds \in odds_set, line \in {LineO215, LineU215},
          bet_type \in {"points", "par"} :
           raw_ocr_bets =
               {NewBetRow(1, Entry(Some("A"), bet_type, line, odds, 2500),
                          "img1", 0, RosterFeed)}
    /\ seq = 1
    /\ game_stats = {}
    /\ bet_results = {}
    /\ unplayed_bets = {}
    /\ pc = "idle"
    /\ todo = <<>>
    /\ pending = {}
    /\ outcome = "none"
    /\ snap = NULL
    /\ csv = NULL
    /\ last = NoCall
    /\ answered = {}
    /\ sheet = EmptySheet
    /\ aggregated_results = NoAggregates

SettleInit == OneBetStored(OddsLow..OddsHigh)

\* process_new_bets on that store, the service answering with a game of
\* the date
SettleNext ==
    \/ StartRun
    \/ SettleFromCache
    \/ \E ans \in ApiAnswers \cup TieAnswers : SettleApiGame(ans)
    \/ FinishRun
    \/ ReturnFromRun

SettleSpec == SettleInit /\ [][SettleNext]_vars

\* ------------------------------------------------- the classifier by itself
\* field values an entry can reach _bet_needs_review with, valid and not
ClassifyPlayers == {Some("A"), Some("B"), Some("Z"), NULL}
ClassifyBetTypes == {Some("points"), Some("par"), Some("dunks"), NULL}
ClassifyScores == {Some(2000), Some(2500), Some(10000), Some(1500),
                   Some(1999), Some(10001), NULL}
ClassifyLines == {LineO215, LineU215, <<"u", "5", ".", "5">>,
                  <<"o", ".", "5">>, <<"o", "2", "1">>,
                  <<"|", "2", "1", ".", "5">>,
                  <<"o", "2", "1", ".", "5", "0">>, NULL}
ClassifyOdds == {Some(-150), Some(120), Some(-1000), Some(1000), Some(0),
                 Some(-1001), Some(1001), NULL}
ClassifyDates == {Some(Date1), Some("2025-01-16"), Some("15/01"), NULL}

ClassifyInputs ==
    [player : ClassifyPlayers, bet_type : ClassifyBetTypes,
     score : ClassifyScores, bet_line : ClassifyLines, odds : ClassifyOdds,
     date : ClassifyDates]

\* _bet_needs_review(e) is called and returns (len(reasons) > 0, reasons)
CallBetNeedsReview(e) ==
    /\ pc = "idle" /\ last = NoCall
    /\ last' = [op |-> "_bet_needs_review", entry |-> e,
                needs_review |-> BetNeedsReview(e, RosterFeed),
                reasons |-> ReviewReasons(e, {p.name : p \in RosterFeed})]
    /\ UNCHANGED <<players, raw_ocr_bets, seq, csv>>
    /\ UNCHANGED statTables
    /\ UNCHANGED settleVars
    /\ UNCHANGED answered
    /\ UNCHANGED uploadVars

ClassifyNext ==
    \/ last = NoCall /\ \E e \in ClassifyInputs : CallBetNeedsReview(e)
    \/ ReturnFromCall

ClassifySpec == Init /\ [][ClassifyNext]_vars

\* ------------------------------------------------- the review loop by itself
\* Images are extracted, the flagged rows exported, and tables edited in
\* any column come back; the call record keeps the whole table
ReviewTables ==
    EditedTablesWith(IF IsNull(csv) THEN {} ELSE Val(csv), ReviewEditNames)

ReviewNext ==
    \/ \E img \in Images : ProcessImageExisting(img)
    \/ \E img \in Images, entries \in SlipReads : ProcessImageFresh(img, entries)
    \/ ExportForReview
    \/ \E table \in ReviewTables : ImportReviewed(table, table)
    \/ ReturnFromCall

ReviewSpec == Init /\ [][ReviewNext]_vars

\* ------------------------------------------------- the roster refresh by itself
\* The feeds players.get_active_players() can return: full_name -> id
FeedPlayers ==
    {[name |-> "A", id |-> 1], [name |-> "B", id |-> 2],
     [name |-> "C", id |-> 3], [name |-> "D", id |-> 4]}

RosterFeeds == SUBSET FeedPlayers

\* the table players after _cache_player_data on a feed.  existing_players
\* are the active rows; a feed name that is not among them is inserted with
\* INSERT OR IGNORE, which does nothing when a row already has the name or
\* the id (both UNIQUE); an active name that the feed lacks gets
\* is_active = 0.
CachePlayerData(plist, feed) ==
    LET existing_players == {p \in plist : p.is_active = 1}
        new_players ==
            {f \in feed : ~\E p \in existing_players : p.name = f.name}
        inactive_players ==
            {p.name : p \in {x \in existing_players :
                                ~\E f \in feed : f.name = x.name}}
        inserted ==
            {[name |-> f.name, nba_api_id |-> f.id, is_active |-> 1] :
                f \in {x \in new_players :
                          ~\E p \in plist :
                               p.name = x.name \/ p.nba_api_id = x.id}}
        marked ==
            {IF p.name \in inactive_players
             THEN [p EXCEPT !.is_active = 0] ELSE p : p \in plist}
    IN  marked \cup inserted

\* the database right after init_database: every table is empty
RosterInit ==
    /\ players = {}
    /\ raw_ocr_bets = {}
    /\ seq = 0
    /\ game_stats = {}
    /\ bet_results = {}
    /\ unplayed_bets = {}
    /\ pc = "idle"
    /\ todo = <<>>
    /\ pending = {}
    /\ outcome = "none"
    /\ snap = NULL
    /\ csv = NULL
    /\ last = NoCall
    /\ answered = {}
    /\ sheet = EmptySheet
    /\ aggregated_results = NoAggregates

\* _cache_player_data is called and the service returns the feed; the call
\* record keeps the feed
CallCachePlayerData(feed) ==
    /\ pc = "idle" /\ last = NoCall
    /\ players' = CachePlayerData(players, feed)
    /\ last' = [op |-> "_cache_player_data", image |-> "",
                ocr_called |-> FALSE, ret |-> "", rows |-> feed, ids |-> {}]
    /\ UNCHANGED <<raw_ocr_bets, seq, csv>>
    /\ UNCHANGED statTables
    /\ UNCHANGED settleVars
    /\ UNCHANGED answered
    /\ UNCHANGED uploadVars

RosterNext ==
    \/ \E feed \in RosterFeeds : CallCachePlayerData(feed)
    \/ ReturnFromCall

RosterSpec == RosterInit /\ [][RosterNext]_vars

\* ------------------------------------------------------------------- upload
\* _get_unuploaded_bets: bet_results joined with raw_ocr_bets and players
UnuploadedBets ==
    {b \in bet_results :
        /\ b.is_uploaded = 0
        /\ \E r \in raw_ocr_bets : r.id = b.raw_bet_id
        /\ \E p \in players : p.nba_api_id = b.player_id}

RECURSIVE SumDeltas(_)
\* agg(ResultSum=('result_delta', 'sum'))
SumDeltas(bets) ==
    IF bets = {} THEN 0
    ELSE LET b == CHOOSE x \in bets : TRUE
         IN  b.result_delta + SumDeltas(bets \ {b})

\* _group_bets: one row per (bet_type, score_range) with sum and size
GroupBets(bets) ==
    {[bet_type |-> k[1], score_range |-> k[2],
      ResultSum |-> SumDeltas({b \in bets : <<b.bet_type, b.score_range>> = k}),
      Count |-> Cardinality({b \in bets : <<b.bet_type, b.score_range>> = k})] :
        k \in {<<b.bet_type, b.score_range>> : b \in bets}}

\* new_result = curr_result + result_delta (new_volume likewise), dropping
\* the value read from the sheet
NewValueFromDelta(curr, delta) == delta

\* new_result = curr_result + result_delta, new_volume = curr_volume +
\* volume_delta
NewValue(curr, delta) == curr + delta

\* _create_updates: the list of {"range": cell, "values": [[new]]} for the
\* grouped bets and the values read from the sheet
CreateUpdates(grouped, current) ==
    UNION {{[range |-> SheetCellMapping(g.bet_type, g.score_range, "Result"),
             value |-> NewValue(
                 current[SheetCellMapping(g.bet_type, g.score_range, "Result")],
                 g.ResultSum)],
            [range |-> SheetCellMapping(g.bet_type, g.score_range, "Volume"),
             value |-> NewValue(
                 current[SheetCellMapping(g.bet_type, g.score_range, "Volume")],
                 g.Count)]} : g \in grouped}

\* the cells after the updates are written
Written(cells, updates, wrap) ==
    [c \in DOMAIN cells |->
        IF \E u \in updates : u.range = c
        THEN IF wrap THEN Some((CHOOSE u \in updates : u.range = c).value)
             ELSE (CHOOSE u \in updates : u.range = c).value
        ELSE cells[c]]

\* the outcomes of the worksheet calls
SheetOutcomes == {"ok", "read_fails", "write_fails"}

\* the outcomes of the worksheet calls and of the UPDATE of is_uploaded
UploadOutcomes == SheetOutcomes \cup {"mark_fails"}

\* upload_to_sheets(dry_run).  sink tells what fails: "ok" nothing,
\* "read_fails" (authorize / batch_get raises), "write_fails"
\* (batch_update raises) or "mark_fails" (batch_update has written the cells
\* and the UPDATE of _mark_bets_as_uploaded raises: rollback, re-raise, the
\* call returns False).  _save_aggregated_results runs inside
\* _create_updates, before batch_update and also in a dry run.  A failing
\* mark is taken only while no Volume cell exceeds MaxBets.
UploadToSheets(dry_run, sink) ==
    /\ pc = "idle" /\ last = NoCall
    /\ sink = "mark_fails" =>
           \A c \in DOMAIN sheet : c[3] = "Volume" => sheet[c] <= MaxBets
    /\ LET bets == UnuploadedBets
           grouped == GroupBets(bets)
           updates == CreateUpdates(grouped, sheet)
           written == bets # {} /\ sink \in {"ok", "mark_fails"} /\ ~dry_run
           applied == written /\ sink = "ok"
       IN  /\ aggregated_results' =
                  IF bets = {} \/ sink = "read_fails" THEN aggregated_results
                  ELSE Written(aggregated_results, updates, TRUE)
           /\ sheet' = IF written THEN Written(sheet, updates, FALSE) ELSE sheet
           /\ bet_results' =
                  IF applied
                  THEN {IF b \in bets THEN [b EXCEPT !.is_uploaded = 1] ELSE b :
                           b \in bet_results}
                  ELSE bet_results
           /\ last' = [op |-> "upload_to_sheets", image |-> "",
                       ocr_called |-> FALSE,
                       ret |-> IF sink # "read_fails"
                                  /\ (bets = {} \/ dry_run \/ sink = "ok")
                               THEN "True" ELSE "False",
                       rows |-> IF applied THEN grouped ELSE {},
                       ids |-> IF applied THEN {b.raw_bet_id : b \in bets}
                               ELSE {}]
    /\ UNCHANGED <<players, raw_ocr_bets, seq, csv, game_stats, unplayed_bets>>
    /\ UNCHANGED settleVars
    /\ UNCHANGED answered

\* Harness for the upload: slips of one player whose results fall into one
\* bucket are extracted and settled one after the other, uploads in between
UploadSlips ==
    { <<Entry(Some("A"), "points", LineU215, -150, 2600)>>,
      <<Entry(Some("A"), "points", LineO215, 200, 2500)>>,
      <<Entry(Some("B"), "par", LineU215, -150, 5500)>> }

UploadNext ==
    \/ \E img \in Images, entries \in UploadSlips :
           ProcessImageFresh(img, entries)
    \/ ReturnFromCall
    \/ StartRun
    \/ SettleFromCache
    \/ \E ans \in ApiAnswers : SettleApiGame(ans)
    \/ FinishRun
    \/ ReturnFromRun
    \/ \E dry_run \in BOOLEAN, sink \in SheetOutcomes :
           UploadToSheets(dry_run, sink)

UploadSpec == Init /\ [][UploadNext]_vars

\* the same harness when the UPDATE of is_uploaded may fail after the
\* worksheet has been written
UploadFailNext ==
    \/ UploadNext
    \/ \E dry_run \in BOOLEAN : UploadToSheets(dry_run, "mark_fails")

UploadFailSpec == Init /\ [][UploadFailNext]_vars

\* ------------------------------------------------- repeated settlement runs
\* process_new_bets is run again and again on a store of candidates and the
\* stats service always answers (never a transport error); a step of the
\* loop is taken whenever one is possible
OkAnswers == {ans \in ApiAnswers \cup TieAnswers : ans.kind = "ok"}

LiveNext ==
    \/ StartRun
    \/ SettleFromCache
    \/ SettleKnownUnplayed
    \/ \E ans \in OkAnswers : SettleApiGame(ans)
    \/ \E ans \in OkAnswers : SettleApiNoGame(ans)
    \/ \E ans \in OkAnswers : SettleApiEmptyLog(ans)
    \/ FinishRun
    \/ ReturnFromRun

\* a store with two candidates of player A on the same date
LiveInit ==
    /\ players = {[name |-> p.name, nba_api_id |-> p.id, is_active |-> 1] :
                    p \in RosterFeed}
    /\ \E odds \in {-150, 120}, line \in {LineO215, LineU215} :
           raw_ocr_bets =
               {NewBetRow(1, Entry(Some("A"), "points", line, odds, 2500),
                          "img1", 0, RosterFeed),
                NewBetRow(2, Entry(Some("A"), "par", LineU215, -150, 2500),
                          "img1", 0, RosterFeed)}
    /\ seq = 2
    /\ game_stats = {}
    /\ bet_results = {}
    /\ unplayed_bets = {}
    /\ pc = "idle"
    /\ todo = <<>>
    /\ pending = {}
    /\ outcome = "none"
    /\ snap = NULL
    /\ csv = NULL
    /\ last = NoCall
    /\ answered = {}
    /\ sheet = EmptySheet
    /\ aggregated_results = NoAggregates

LiveSpec == LiveInit /\ [][LiveNext]_vars /\ WF_vars(LiveNext)

\* ------------------------------------------------- the extractor by itself
\* The OCR text of an image as the tokens the patterns of _extract_bet_data
\* can match: a date (\d{1,2}/\d{2}), a bet type as printed, a printed name,
\* or a score/line/odds triple of score_pattern.
MaxTokens == 4

DateTok(d) ==
    [kind |-> "date", str |-> d, chars |-> <<>>, score |-> 0,
     line |-> <<>>, odds |-> <<>>]
\* the characters of a label of ORDERED_OCR_BET_TYPES
LabelChars(t) ==
    CASE t = "Pts+Reb+Ast" ->
             <<"P", "t", "s", "+", "R", "e", "b", "+", "A", "s", "t">>
      [] t = "Pts+Reb" ->
             <<"P", "t", "s", "+", "R", "e", "b">>
      [] t = "Pts+Ast" ->
             <<"P", "t", "s", "+", "A", "s", "t">>
      [] t = "Reb+Ast" ->
             <<"R", "e", "b", "+", "A", "s", "t">>
      [] t = "Blocks" ->
             <<"B", "l", "o", "c", "k", "s">>
      [] t = "Steals" ->
             <<"S", "t", "e", "a", "l", "s">>
      [] t = "Turnovers" ->
             <<"T", "u", "r", "n", "o", "v", "e", "r", "s">>
      [] t = "Points" ->
             <<"P", "o", "i", "n", "t", "s">>
      [] t = "Assists" ->
             <<"A", "s", "s", "i", "s", "t", "s">>
      [] t = "Rebounds" ->
             <<"R", "e", "b", "o", "u", "n", "d", "s">>
      [] t = "3pts" ->
             <<"3", "p", "t", "s">>

TypeTok(t) ==
    [kind |-> "type", str |-> t, chars |-> LabelChars(t), score |-> 0,
     line |-> <<>>, odds |-> <<>>]
\* a piece of a bet type as the OCR reads it
PrintTok(w) ==
    [kind |-> "type", str |-> "", chars |-> w, score |-> 0,
     line |-> <<>>, odds |-> <<>>]
WordTok(w) ==
    [kind |-> "word", str |-> "", chars |-> w, score |-> 0,
     line |-> <<>>, odds |-> <<>>]
TripleTok(score, line, odds) ==
    [kind |-> "triple", str |-> "", chars |-> <<>>, score |-> score,
     line |-> line, odds |-> odds]

\* how a name is written
Spelling(name) ==
    CASE name = "Victor Wembanyama" ->
             <<"V", "i", "c", "t", "o", "r", " ", "W", "e", "m", "b", "a",
               "n", "y", "a", "m", "a">>
      [] name = "Victor Wembanyam" ->
             <<"V", "i", "c", "t", "o", "r", " ", "W", "e", "m", "b", "a",
               "n", "y", "a", "m">>
      [] name = "Victor Wembanyan" ->
             <<"V", "i", "c", "t", "o", "r", " ", "W", "e", "m", "b", "a",
               "n", "y", "a", "n">>
      [] name = "Alexandre Sarr" ->
             <<"A", "l", "e", "x", "a", "n", "d", "r", "e", " ", "S", "a",
               "r", "r">>
      [] name = "Alex Sarr" ->
             <<"A", "l", "e", "x", " ", "S", "a", "r", "r">>

\* the tokens an OCR text is made of here.  2/30 matches the date pattern
\* and is no calendar date; |150 matches the odds part of score_pattern
\* (its character class holds the bar) and is no integer.
OcrTokens ==
    {DateTok("1/15"), DateTok("2/30"), TypeTok("Pts+Reb+Ast"),
     WordTok(Spelling("Victor Wembanyama")), WordTok(Spelling("Alex Sarr")),
     TripleTok(2500, LineO215, <<"-", "1", "5", "0">>),
     TripleTok(3000, <<"0", "2", "1", ".", "5">>, <<"7", "1", "2", "0">>),
     TripleTok(5500, LineU215, <<"|", "1", "5", "0">>)}

OcrTexts == UNION {[1..n -> OcrTokens] : n \in 0..MaxTokens}

IsDateToken(t) == t.kind = "date"
IsTripleToken(t) == t.kind = "triple"

\* str.lower() on the letters that occur
LowerCh(ch) ==
    CASE ch = "V" -> "v" [] ch = "W" -> "w" [] ch = "A" -> "a"
      [] ch = "S" -> "s" [] ch = "P" -> "p" [] ch = "R" -> "r"
      [] ch = "B" -> "b" [] ch = "T" -> "t" [] ch = "E" -> "e"
      [] OTHER -> ch
Lower(chars) == [i \in 1..Len(chars) |-> LowerCh(chars[i])]

\* the offsets at which s occurs in w
Occurrences(s, w) ==
    {k \in 1..(Len(w) - Len(s) + 1) : SubSeq(w, k, k + Len(s) - 1) = s}

\* the places <<token, offset>> of the text at which a name occurs
PlacesInText(name, text) ==
    UNION {{<<i, k>> : k \in Occurrences(Lower(Spelling(name)),
                                          Lower(text[i].chars))} :
              i \in {j \in 1..Len(text) : text[j].kind = "word"}}

\* raw_text.index(x.lower()): the first place of a name that occurs
TextIndex(name, text) ==
    LET ps == PlacesInText(name, text)
    IN  CHOOSE n \in {100 * p[1] + p[2] : p \in ps} :
            \A p \in ps : n <= 100 * p[1] + p[2]

RECURSIVE SortedByIndex(_, _)
\* sorted(found, key=index): stable, equal keys keep the order of found
SortedByIndex(found, text) ==
    IF found = <<>> THEN <<>>
    ELSE LET least == CHOOSE i \in 1..Len(found) :
                 /\ \A j \in 1..Len(found) :
                        TextIndex(found[i], text) <= TextIndex(found[j], text)
                 /\ \A j \in 1..(i - 1) :
                        TextIndex(found[j], text) > TextIndex(found[i], text)
             rest == [j \in 1..(Len(found) - 1) |->
                         IF j < least THEN found[j] ELSE found[j + 1]]
         IN  <<found[least]>> \o SortedByIndex(rest, text)

\* NAME_REPLACEMENTS, the entries for the names used here
NameReplacementKeys == <<"Alex Sarr", "Victor Wembanyan", "Victor Wembanyam">>
NameReplacements(item) ==
    CASE item = "Alex Sarr" -> "Alexandre Sarr"
      [] item = "Victor Wembanyan" -> "Victor Wembanyama"
      [] item = "Victor Wembanyam" -> "Victor Wembanyama"
      [] OTHER -> item

\* the roster feed of the extractor, in the order of the feed
ExtractRoster ==
    <<[name |-> "Victor Wembanyama", id |-> 1],
      [name |-> "Alexandre Sarr", id |-> 2]>>
ExtractPlayerIds == {ExtractRoster[i] : i \in 1..Len(ExtractRoster)}

\* self.all_players: the roster names, then the alias strings
AllPlayers ==
    [i \in 1..Len(ExtractRoster) |-> ExtractRoster[i].name]
    \o NameReplacementKeys

\* _find_players_in_text
FindPlayersInText(text, all_players) ==
    LET InText(name) == PlacesInText(name, text) # {}
    IN  SortedByIndex(SelectSeq(all_players, InText), text)

\* the list as it would be with the two-way combinations first
TwoWayFirst ==
    <<"Pts+Reb", "Pts+Ast", "Reb+Ast", "Pts+Reb+Ast", "Blocks", "Steals",
      "Turnovers", "Points", "Assists", "Rebounds", "3pts">>

\* ORDERED_OCR_BET_TYPES and TYPE_REPLACEMENTS
OrderedOcrBetTypes ==
    <<"Pts+Reb+Ast", "Pts+Reb", "Pts+Ast", "Reb+Ast", "Blocks", "Steals",
      "Turnovers", "Points", "Assists", "Rebounds", "3pts">>
TypeReplacements(t) ==
    CASE t = "Reb+Ast" -> "rebs_asts" [] t = "Pts+Ast" -> "pts_asts"
      [] t = "Pts+Reb" -> "pts_rebs" [] t = "3pts" -> "three_pointers"
      [] t = "Pts+Reb+Ast" -> "par" [] t = "Blocks" -> "blocks"
      [] t = "Steals" -> "steals" [] t = "Turnovers" -> "turnovers"
      [] t = "Points" -> "points" [] t = "Assists" -> "assists"
      [] t = "Rebounds" -> "rebounds" [] OTHER -> t

RECURSIVE TypeText(_)
\* the part of raw_text in which a label can occur: the characters of the
\* bet type pieces and of the words, one white space between two tokens
\* (dates and score/line/odds triples hold no letter that follows a '+')
TypeText(text) ==
    IF text = <<>> THEN <<>>
    ELSE IF Head(text).kind \in {"type", "word"}
         THEN Head(text).chars \o <<" ">> \o TypeText(Tail(text))
         ELSE TypeText(Tail(text))

RECURSIVE SkipSpaces(_)
\* w without its leading white space
SkipSpaces(w) ==
    IF w # <<>> /\ Head(w) = " " THEN SkipSpaces(Tail(w)) ELSE w

RECURSIVE NormalizePlus(_)
\* re.sub(r'\s*\+\s*', '+', raw_text): the white space next to a '+', on
\* either side, is dropped
NormalizePlus(w) ==
    IF w = <<>> THEN <<>>
    ELSE IF Head(w) = "+" THEN <<"+">> \o NormalizePlus(SkipSpaces(Tail(w)))
    ELSE IF Head(w) = " " /\ SkipSpaces(w) # <<>> /\ Head(SkipSpaces(w)) = "+"
         THEN NormalizePlus(SkipSpaces(w))
    ELSE <<Head(w)>> \o NormalizePlus(Tail(w))

\* the first search string of a list of them that raw contains; NULL if
\* none (the for loop of _find_bet_type)
FirstContained(search_strings, raw) ==
    LET hits == {i \in 1..Len(search_strings) :
                    Occurrences(Lower(LabelChars(search_strings[i])), raw) # {}}
    IN  IF hits = {} THEN NULL
        ELSE Some(search_strings[CHOOSE i \in hits : \A j \in hits : i <= j])

\* _find_bet_type: raw_text is lower-cased, the white space around '+' is
\* removed, and the first search string, in the order of the list, that the
\* text contains is returned; NULL if none
FindBetType(text) ==
    FirstContained(OrderedOcrBetTypes, NormalizePlus(Lower(TypeText(text))))

\* a column as it would be if it were padded to max_length with NA
PaddedColumn(col, max_length) ==
    col \o [i \in 1..(max_length - Len(col)) |-> NULL]

\* col if len(col) == max_length else [pd.NA] * max_length
NaColumn(col, max_length) ==
    IF Len(col) = max_length THEN col ELSE [i \in 1..max_length |-> NULL]

\* _extract_bet_data: the records of a text, <<>> for None
ExtractBetData(text, all_players) ==
    LET dates == SelectSeq(text, IsDateToken)
        score_lines == SelectSeq(text, IsTripleToken)
        found == FindPlayersInText(text, all_players)
        players_in_text == [i \in 1..Len(found) |-> Some(NameReplacements(found[i]))]
        max_length == IF Len(players_in_text) > Len(score_lines)
                      THEN Len(players_in_text) ELSE Len(score_lines)
        scores == NaColumn([i \in 1..Len(score_lines) |->
                               Some(score_lines[i].score)], max_length)
        lines == NaColumn([i \in 1..Len(score_lines) |->
                              score_lines[i].line], max_length)
        odds == NaColumn([i \in 1..Len(score_lines) |->
                             score_lines[i].odds], max_length)
        plyrs == NaColumn(players_in_text, max_length)
        bet_type == FindBetType(text)
    IN  IF dates = <<>> \/ score_lines = <<>> THEN <<>>
        ELSE [i \in 1..max_length |->
                 [date |-> Some(dates[1].str),
                  bet_type |-> IF IsNull(bet_type) THEN NULL
                               ELSE Some(TypeReplacements(Val(bet_type))),
                  bet_line |-> lines[i], score |-> scores[i],
                  odds |-> odds[i], player |-> plyrs[i]]]

\* the odds of clean_data: a leading 7, 4, ~ or " becomes the minus sign, a
\* later minus sign becomes 4, and the string is converted to an integer;
\* NULL when the conversion raises
CleanOdds(tok) ==
    LET a == IF tok[1] \in {"7", "4", "~", "\""}
             THEN <<"-">> \o Tail(tok) ELSE tok
        b == [i \in 1..Len(a) |-> IF i > 1 /\ a[i] = "-" THEN "4" ELSE a[i]]
        digits == Tail(b)
    IN  IF b[1] \in {"-", "+"} /\ digits # <<>>
           /\ \A i \in 1..Len(digits) : digits[i] \in Digits
        THEN Some(IF b[1] = "-" THEN -DigitsValue(digits)
                  ELSE DigitsValue(digits))
        ELSE NULL

\* the bet line of clean_data: a leading 0 is read as o
CleanLine(line) ==
    IF line # <<>> /\ line[1] = "0" THEN <<"o">> \o Tail(line) ELSE line

\* pd.to_datetime(f"{x}/{year}", format='%m/%d/%Y') of the year 2025 as
\* YYYY-MM-DD; NULL when it raises
CleanDate(d) ==
    CASE d = "1/15" -> Some("2025-01-15")
      [] d = "1/16" -> Some("2025-01-16")
      [] OTHER -> NULL

\* clean_data: raised tells that a conversion raised, entries are the
\* cleaned entries otherwise
CleanData(extracted) ==
    LET n == Len(extracted)
        bad(i) == \/ ~IsNull(extracted[i].odds)
                     /\ IsNull(CleanOdds(extracted[i].odds))
                  \/ ~IsNull(extracted[i].date)
                     /\ IsNull(CleanDate(Val(extracted[i].date)))
    IN  IF \E i \in 1..n : bad(i)
        THEN [raised |-> TRUE, entries |-> <<>>]
        ELSE [raised |-> FALSE,
              entries |->
                  [i \in 1..n |->
                      [extracted[i] EXCEPT
                          !.odds = IF IsNull(@) THEN NULL ELSE CleanOdds(@),
                          !.bet_line = CleanLine(@),
                          !.date = IF IsNull(@) THEN NULL
                                   ELSE CleanDate(Val(@))]]]

\* the records of a list, numbered
Numbered(list) == {<<i, list[i]>> : i \in 1..Len(list)}

\* process_image(img) on an image without unflagged rows whose OCR text is
\* text: extraction, cleaning and saving; an exception of clean_data is
\* caught by process_image, which then returns None.  The call record keeps
\* the text in ids and the extracted records, numbered, in rows.
ProcessImageText(img, text) ==
    /\ pc = "idle" /\ last = NoCall
    /\ ExistingData(img) = {}
    /\ LET extracted == ExtractBetData(text, AllPlayers)
           cleaned == CleanData(extracted)
           kept == {r \in raw_ocr_bets : r.image_source # img}
           saved == SaveToDatabase(kept, seq, cleaned.entries, img,
                                   ExtractPlayerIds)
       IN  /\ seq + Len(extracted) <= MaxBets
           /\ raw_ocr_bets' = saved.rows
           /\ seq' = saved.seq
           /\ last' = [op |-> "process_image", image |-> img,
                       ocr_called |-> TRUE,
                       ret |-> IF extracted = <<>> \/ cleaned.raised
                               THEN "None" ELSE "extracted",
                       rows |-> Numbered(extracted), ids |-> {text}]
    /\ UNCHANGED <<players, csv>>
    /\ UNCHANGED statTables
    /\ UNCHANGED settleVars
    /\ UNCHANGED answered
    /\ UNCHANGED uploadVars

\* init_database followed by _cache_player_data on the roster of the
\* extractor
ExtractInit ==
    /\ players = {[name |-> p.name, nba_api_id |-> p.id, is_active |-> 1] :
                    p \in ExtractPlayerIds}
    /\ raw_ocr_bets = {}
    /\ seq = 0
    /\ game_stats = {}
    /\ bet_results = {}
    /\ unplayed_bets = {}
    /\ pc = "idle"
    /\ todo = <<>>
    /\ pending = {}
    /\ outcome = "none"
    /\ snap = NULL
    /\ csv = NULL
    /\ last = NoCall
    /\ answered = {}
    /\ sheet = EmptySheet
    /\ aggregated_results = NoAggregates

\* the first image of a folder is processed into an empty table
ProcessFirstImage(text) ==
    /\ raw_ocr_bets = {}
    /\ ProcessImageText("img1", text)

ExtractNext ==
    \/ last = NoCall /\ \E text \in OcrTexts : ProcessFirstImage(text)
    \/ ReturnFromCall

ExtractSpec == ExtractInit /\ [][ExtractNext]_vars

\* ------------------------------------------------- the two classifiers
\* the feed of the latest roster refresh: B, stored from the feed before,
\* is no longer in it
LatestFeed == {[name |-> "A", id |-> 1]}

\* ReviewHandler.bet_needs_review against the table players.  The name is
\* looked up whatever is_active says; raised tells that fetchone() returned
\* None, whose [0] raises TypeError.
HandlerBetNeedsReview(e, plist) ==
    LET names == {p.name : p \in plist}
    IN  IF ~IsNull(e.player) /\ Val(e.player) \notin names
        THEN [raised |-> TRUE, needs_review |-> FALSE, reasons |-> {}]
        ELSE [raised |-> FALSE,
              needs_review |-> ReviewReasons(e, names) # {},
              reasons |-> ReviewReasons(e, names)]

\* init_database, then _cache_player_data on the feed of A and B, then on
\* the latest feed
BothInit ==
    /\ players = CachePlayerData(CachePlayerData({}, RosterFeed), LatestFeed)
    /\ raw_ocr_bets = {}
    /\ seq = 0
    /\ game_stats = {}
    /\ bet_results = {}
    /\ unplayed_bets = {}
    /\ pc = "idle"
    /\ todo = <<>>
    /\ pending = {}
    /\ outcome = "none"
    /\ snap = NULL
    /\ csv = NULL
    /\ last = NoCall
    /\ answered = {}
    /\ sheet = EmptySheet
    /\ aggregated_results = NoAggregates

\* both classifiers are called on one entry: _bet_needs_review with the
\* in-memory roster of the latest feed, bet_needs_review with the table
CallBothClassifiers(e) ==
    /\ pc = "idle" /\ last = NoCall
    /\ last' = [op |-> "bet_needs_review", entry |-> e,
                at_extraction |->
                    [raised |-> FALSE,
                     needs_review |-> BetNeedsReview(e, LatestFeed),
                     reasons |-> ReviewReasons(e, {p.name : p \in LatestFeed})],
                at_review |-> HandlerBetNeedsReview(e, players)]
    /\ UNCHANGED <<players, raw_ocr_bets, seq, csv>>
    /\ UNCHANGED statTables
    /\ UNCHANGED settleVars
    /\ UNCHANGED answered
    /\ UNCHANGED uploadVars

BothNext ==
    \/ last = NoCall /\ \E e \in ClassifyInputs : CallBothClassifiers(e)
    \/ ReturnFromCall

BothSpec == BothInit /\ [][BothNext]_vars

\* ------------------------------------------------- the score range by itself
\* _calculate_score_range is called on one score (in hundredths) after the
\* other: every hundredth from 19.00 to 51.00, and 75 and 100
ScoreInputs == 1900..5100 \cup {7500, ScoreHigh}

CallCalculateScoreRange(score) ==
    /\ pc = "idle" /\ last = NoCall
    /\ last' = [op |-> "_calculate_score_range", score |-> score,
                ret |-> CalculateScoreRange(score)]
    /\ UNCHANGED <<players, raw_ocr_bets, seq, csv>>
    /\ UNCHANGED statTables
    /\ UNCHANGED settleVars
    /\ UNCHANGED answered
    /\ UNCHANGED uploadVars

ScoreRangeNext ==
    \/ last = NoCall /\ \E score \in ScoreInputs : CallCalculateScoreRange(score)
    \/ ReturnFromCall

ScoreRangeSpec == Init /\ [][ScoreRangeNext]_vars

\* ------------------------------------------------- the bet type of a slip
\* A slip of one bet (a date, a name, a score/line/odds triple) whose bet
\* type is printed in up to MaxPieces pieces, as the OCR may split and
\* space it.
MaxPieces == 5

TypePieces ==
    {<<"P", "t", "s">>, <<"+">>, <<"R", "e", "b">>, <<"A", "s", "t">>,
     <<"P", "T", "S", "+", "R", "E", "B">>}

OneBetTail ==
    <<DateTok("1/15"), WordTok(Spelling("Victor Wembanyama")),
      TripleTok(2500, LineO215, <<"-", "1", "5", "0">>)>>

TypedTexts ==
    UNION {{[i \in 1..Len(ps) |-> PrintTok(ps[i])] \o OneBetTail :
               ps \in [1..n -> TypePieces]} : n \in 0..MaxPieces}

FindTypeNext ==
    \/ last = NoCall /\ \E text \in TypedTexts : ProcessFirstImage(text)
    \/ ReturnFromCall

FindTypeSpec == ExtractInit /\ [][FindTypeNext]_vars

\* ===================================================================== claims

\* the four tables a settlement run writes, as one value
Tables == [raw |-> raw_ocr_bets, gs |-> game_stats, br |-> bet_results,
           up |-> unplayed_bets]

HasOutcomeRow(id) ==
    \/ \E b \in bet_results : b.raw_bet_id = id
    \/ \E u \in unplayed_bets : u.raw_bet_id = id

\* C1: when a settlement run has ended (normally, after skipped candidates,
\* or aborted by a service failure), every candidate of the persisted store
\* that has a bet_results row or an unplayed_bets row has is_processed = 1.
C1_OutcomeRowImpliesProcessed ==
    pc = "done" =>
        \A r \in raw_ocr_bets : HasOutcomeRow(r.id) => r.is_processed = 1

\* C2: when a settlement run fails as a whole, the persisted tables are
\* what they were before the run and process_new_bets returns False.
C2_FailedRunRolledBack ==
    (pc = "done" /\ outcome # "True") =>
        (Tables = Val(snap) /\ outcome = "False")

\* C3: importing the table that export_for_review has just written, with no
\* edit, leaves needs_review and is_voided of every candidate unchanged.
C3_UneditedRoundTripNoOp ==
    [][(/\ pc = "idle"
        /\ csv = Some(EntriesForReview(raw_ocr_bets, players))
        /\ UpdateReviewedEntries(Val(csv)))
       => \A r \in raw_ocr_bets :
              \E n \in raw_ocr_bets' :
                  /\ n.id = r.id
                  /\ n.needs_review = r.needs_review
                  /\ n.is_voided = r.is_voided]_vars

\* C4: a voided candidate is never un-voided, and no operation stores a
\* non-voided candidate for the wager of a voided one (same image, bet
\* type, line, score, odds and date) again.
C4_VoidedIsTerminal ==
    [][\A r \in raw_ocr_bets :
          r.is_voided = 1 =>
              /\ \A n \in raw_ocr_bets' : n.id = r.id => n.is_voided = 1
              /\ ~\E n \in raw_ocr_bets' :
                     /\ n.id \notin {x.id : x \in raw_ocr_bets}
                     /\ n.image_source = r.image_source
                     /\ n.bet_type = r.bet_type
                     /\ n.bet_line = r.bet_line /\ n.score = r.score
                     /\ n.odds = r.odds /\ n.date = r.date
                     /\ n.is_voided = 0]_vars

\* C5: once a candidate is processed or voided, no step changes its player,
\* bet type, score, bet line, odds or date.
C5_TerminalRowsKeepCoreFields ==
    [][\A r \in raw_ocr_bets :
          (r.is_processed = 1 \/ r.is_voided = 1) =>
              \A n \in raw_ocr_bets' :
                  n.id = r.id =>
                      /\ n.player_id = r.player_id /\ n.bet_type = r.bet_type
                      /\ n.score = r.score /\ n.bet_line = r.bet_line
                      /\ n.odds = r.odds /\ n.date = r.date]_vars

\* C6 as claimed: no two non-voided candidates have the same
\* (player_id, date, bet_type, score), an unresolved player_id counting as
\* a value like any other.
C6_NoSharedKeyAsClaimed ==
    \A a, b \in raw_ocr_bets :
        (a.id # b.id /\ a.is_voided = 0 /\ b.is_voided = 0) =>
            ~(/\ a.player_id = b.player_id /\ a.date = b.date
              /\ a.bet_type = b.bet_type /\ a.score = b.score)

\* C6 amended: no two non-voided candidates whose player_id, date, bet_type
\* and score are all resolved (non-NULL) have the same
\* (player_id, date, bet_type, score).
C6_NoSharedResolvedKey ==
    \A a, b \in raw_ocr_bets :
        (/\ a.id # b.id /\ a.is_voided = 0 /\ b.is_voided = 0
         /\ a.player_id # NULL /\ a.date # NULL
         /\ a.bet_type # NULL /\ a.score # NULL) =>
            ~(/\ a.player_id = b.player_id /\ a.date = b.date
              /\ a.bet_type = b.bet_type /\ a.score = b.score)

\* C6 witness: an extraction has just run whose insert was ignored as a
\* duplicate of a stored, resolved, non-voided candidate of another image
C6_DuplicateIgnored ==
    /\ last.op = "process_image" /\ last.ret = "extracted"
    /\ ~\E r \in raw_ocr_bets : r.image_source = last.image
    /\ \E r \in raw_ocr_bets : r.player_id # NULL /\ r.is_voided = 0

\* C7: process_image on an image that has unflagged stored candidates
\* returns exactly those, does not run the OCR and changes no table; so a
\* second call starts from the same tables and returns the same.
C7_ExistingImageIsReturned ==
    [][\A img \in Images :
          (/\ pc = "idle"
           /\ \E r \in raw_ocr_bets : r.image_source = img /\ r.needs_review = 0
           /\ last'.op = "process_image" /\ last'.image = img) =>
              /\ last'.ret = "existing"
              /\ last'.rows = {r \in raw_ocr_bets :
                                 r.image_source = img /\ r.needs_review = 0}
              /\ ~last'.ocr_called
              /\ Tables' = Tables /\ players' = players /\ seq' = seq]_vars

\* C7 witness: process_image has returned the stored rows of an image
C7_ReturnedExisting ==
    last.op = "process_image" /\ last.ret = "existing" /\ last.rows # {}

\* C8: after update_reviewed_entries, every candidate that was flagged and
\* non-voided before and whose id the table does not list is voided, also
\* for a table with no rows.
C8_DroppedIdsAreVoided ==
    [][(pc = "idle" /\ last'.op = "update_reviewed_entries") =>
          \A r \in raw_ocr_bets :
              (r.needs_review = 1 /\ r.is_voided = 0 /\ r.id \notin last'.ids)
                  => \E n \in raw_ocr_bets' : n.id = r.id /\ n.is_voided = 1]_vars

\* C9: a processed candidate is unflagged and non-voided (in the file, and
\* for the UPDATEs the run has not committed yet), and every candidate a
\* run sets out to settle is unflagged and non-voided.
C9_ProcessedIsUnflaggedNonVoided ==
    /\ \A r \in raw_ocr_bets :
           (r.is_processed = 1 \/ r.id \in pending) =>
               (r.needs_review = 0 /\ r.is_voided = 0)
    /\ \A i \in 1..Len(todo) :
           \E r \in raw_ocr_bets :
               r.id = todo[i].id /\ r.needs_review = 0 /\ r.is_voided = 0

\* C9 witness: a processed candidate beside a voided one
C9_ProcessedBesideVoided ==
    /\ \E r \in raw_ocr_bets : r.is_processed = 1
    /\ \E r \in raw_ocr_bets : r.is_voided = 1

\* C10: a bet_results row, when it is written, has result Win exactly when
\* the line starts with o and stat > line or starts with u and stat < line,
\* Loss exactly in the strict opposite case; over_under is Over for o and
\* Under for u; stat_result is the game_stats value of the candidate's bet
\* type and line_value the number after the first character of the line.
C10_ResultMatchesLineAndStat ==
    [][\A b \in bet_results' \ bet_results :
          \E r \in raw_ocr_bets, g \in game_stats' :
              /\ r.id = b.raw_bet_id /\ g.id = b.game_stats_id
              /\ Some(g.player_id) = r.player_id /\ Some(g.date) = r.date
              /\ b.stat_result = g.stats[Val(r.bet_type)]
              /\ Some(b.line_value) = LineValue(r.bet_line)
              /\ r.bet_line[1] \in {"o", "u"}
              /\ (b.over_under = "Over") <=> (r.bet_line[1] = "o")
              /\ (b.over_under = "Under") <=> (r.bet_line[1] = "u")
              /\ (b.result = "Win") <=>
                     \/ (r.bet_line[1] = "o" /\ b.stat_result > b.line_value)
                     \/ (r.bet_line[1] = "u" /\ b.stat_result < b.line_value)
              /\ (b.result = "Loss") <=>
                     \/ (r.bet_line[1] = "o" /\ b.stat_result < b.line_value)
                     \/ (r.bet_line[1] = "u" /\ b.stat_result > b.line_value)]_vars

\* C10 witness: the store holds a winning Over and a losing Under
C10_WinAndLossSettled ==
    /\ \E b \in bet_results : b.result = "Win" /\ b.over_under = "Over"
    /\ \E b \in bet_results : b.result = "Loss" /\ b.over_under = "Under"

\* C11: the result_delta of a bet_results row, when it is written, is 100
\* for a Win; for a Loss it is the odds when they are negative, and for
\* positive odds minus the integer nearest to 10000 / odds (the even one of
\* two equally near), which is -83 for odds of 120.
C11_PayoutDelta ==
    [][\A b \in bet_results' \ bet_results :
          \E r \in raw_ocr_bets :
              /\ r.id = b.raw_bet_id
              /\ LET odds == Val(r.odds)
                     n == -b.result_delta
                     off == IF n * odds >= 10000 THEN n * odds - 10000
                            ELSE 10000 - n * odds
                 IN  /\ b.result = "Win" => b.result_delta = 100
                     /\ (b.result = "Loss" /\ odds < 0) => b.result_delta = odds
                     /\ (b.result = "Loss" /\ odds > 0) =>
                            /\ n >= 0
                            /\ 2 * off <= odds
                            /\ (2 * off = odds) => n % 2 = 0
                     /\ (b.result = "Loss" /\ odds = 120) => b.result_delta = -83
                     /\ (b.result = "Loss" /\ odds = -150) => b.result_delta = -150]_vars

\* C11 witness: a Loss at odds of 120 is in the store with a delta of -83
C11_LossAtPositiveOdds ==
    \E b \in bet_results, r \in raw_ocr_bets :
        /\ r.id = b.raw_bet_id /\ r.odds = Some(120)
        /\ b.result = "Loss" /\ b.result_delta = -83

\* C12: no bet_results row has a result other than Win or Loss; when the
\* stat of the candidate being settled equals its line value, no
\* bet_results row is written and the candidate is not marked processed;
\* and a line of the form [ou]<digits>.5 never equals a whole-number stat.
C12_NoPushPersisted ==
    [][/\ \A b \in bet_results' : b.result \in {"Win", "Loss"}
       /\ (pc = "running" /\ todo # <<>> /\ todo' = Tail(todo)) =>
              LET c == Head(todo)
              IN  \A g \in game_stats' :
                      (Some(g.player_id) = c.player_id /\ Some(g.date) = c.date) =>
                          LET stat == g.stats[Val(c.bet_type)]
                              line == Val(LineValue(c.bet_line))
                          IN  /\ stat = line =>
                                     /\ bet_results' = bet_results
                                     /\ c.id \notin pending'
                                     /\ \A r \in raw_ocr_bets' :
                                            r.id = c.id => r.is_processed = 0
                              /\ (MatchesLineFormat(c.bet_line) /\ stat % 10 = 0)
                                     => stat # line]_vars

\* C12 witness: a run has ended normally and left a candidate whose stat
\* equals its line unprocessed and without a result
C12_TieLeftUnsettled ==
    /\ pc = "done" /\ outcome = "True" /\ bet_results = {}
    /\ \E g \in game_stats, r \in raw_ocr_bets :
           /\ Some(g.player_id) = r.player_id /\ Some(g.date) = r.date
           /\ g.stats[Val(r.bet_type)] = Val(LineValue(r.bet_line))
           /\ r.is_processed = 0

\* C13: _bet_needs_review returns (False, no reasons) for an entry whose six
\* fields are all present and valid, and (True, exactly one reason, of that
\* field) for an entry with exactly one field missing or invalid; a score
\* of 15.00 alone gives only "Score out of expected range".
C13_ReasonsAreExact ==
    last.op = "_bet_needs_review" =>
        LET e == last.entry
            bad == (IF e.player \in {Some("A"), Some("B")} THEN {} ELSE {"player"})
               \cup (IF e.bet_type \in {Some("points"), Some("par")}
                     THEN {} ELSE {"bet_type"})
               \cup (IF e.score \in {Some(2000), Some(2500), Some(10000)}
                     THEN {} ELSE {"score"})
               \cup (IF e.bet_line \in {LineO215, LineU215, <<"u", "5", ".", "5">>}
                     THEN {} ELSE {"bet_line"})
               \cup (IF e.odds \in {Some(-150), Some(120), Some(-1000),
                                    Some(1000), Some(0)}
                     THEN {} ELSE {"odds"})
               \cup (IF e.date \in {Some(Date1), Some("2025-01-16")}
                     THEN {} ELSE {"date"})
            of(f) == CASE f = "player" -> {"Missing player name", "Player not found"}
                       [] f = "bet_type" -> {"Missing bet type", "Invalid bet type"}
                       [] f = "score" -> {"Missing score", "Score out of expected range"}
                       [] f = "bet_line" -> {"Missing bet line", "Invalid bet line format"}
                       [] f = "odds" -> {"Missing odds", "Odds out of expected range"}
                       [] f = "date" -> {"Missing date", "Invalid date format"}
        IN  /\ bad = {} => (~last.needs_review /\ last.reasons = {})
            /\ \A f \in bad :
                   bad = {f} =>
                       /\ last.needs_review
                       /\ Cardinality(last.reasons) = 1
                       /\ last.reasons \subseteq of(f)
            /\ (bad = {"score"} /\ e.score = Some(1500)) =>
                   last.reasons = {"Score out of expected range"}

\* C13 witness: the classifier has returned for an entry whose only fault
\* is a score of 15.00
C13_OnlyScoreTooLow ==
    /\ last.op = "_bet_needs_review"
    /\ last.entry = [player |-> Some("A"), bet_type |-> Some("points"),
                     score |-> Some(1500), bet_line |-> LineO215,
                     odds |-> Some(-150), date |-> Some(Date1)]
    /\ last.reasons = {"Score out of expected range"}

\* the loop body asks the stats service for the candidate at the head of the
\* list (whatever the service does)
ServiceCalled ==
    \E ans \in ApiAnswers :
        \/ SettleApiGame(ans) \/ SettleApiNoGame(ans)
        \/ SettleApiEmptyLog(ans) \/ SettleApiTimeout(ans)

\* C14: game_stats has at most one row per (player_id, date); the stats
\* service is never asked for a candidate whose (player_id, date) has a
\* game_stats row or an unplayed_bets row; and over all runs the service is
\* asked at most once for a (player_id, date) it has answered for.
C14_ServiceAskedOncePerKey ==
    [][/\ \A g1, g2 \in game_stats' :
              (g1.player_id = g2.player_id /\ g1.date = g2.date) => g1 = g2
       /\ ServiceCalled =>
              LET c == Head(todo)
              IN  /\ ~\E g \in game_stats :
                         Some(g.player_id) = c.player_id /\ Some(g.date) = c.date
                  /\ ~\E u \in unplayed_bets :
                         Some(u.player_id) = c.player_id /\ Some(u.date) = c.date
       /\ ServiceCalled =>
              <<Head(todo).player_id, Head(todo).date>> \notin answered]_vars

\* C15: after update_reviewed_entries, every table row whose edited fields
\* pass the classifier has its stored candidate unflagged, with the roster
\* id of the edited player name and with the edited bet type, score, bet
\* line, odds and date.
C15_PassingRowsAreStored ==
    [][last'.op = "update_reviewed_entries" =>
               \A b \in last'.rows, r \in raw_ocr_bets :
                   (/\ r.id = b.id
                    /\ ~IsNull(b.player)
                    /\ \E p \in players : p.name = Val(b.player)
                    /\ ReviewReasons(b, {p.name : p \in players}) = {})
                   => \E n \in raw_ocr_bets' :
                          /\ n.id = b.id
                          /\ n.needs_review = 0
                          /\ \E p \in players :
                                 /\ p.name = Val(b.player)
                                 /\ n.player_id = Some(p.nba_api_id)
                          /\ n.bet_type = b.bet_type
                          /\ n.score = b.score
                          /\ n.bet_line = b.bet_line
                          /\ n.odds = b.odds
                          /\ n.date = b.date]_vars

\* C16: update_reviewed_entries leaves the stored candidate of every table
\* row whose edited fields still fail the classifier as it was (all fields,
\* needs_review and is_voided included).
C16_FailingRowsUntouched ==
    [][last'.op = "update_reviewed_entries" =>
               \A b \in last'.rows, r \in raw_ocr_bets :
                   (/\ r.id = b.id
                    /\ \/ IsNull(b.player)
                       \/ ~\E p \in players : Some(p.name) = b.player
                       \/ IsNull(b.score)
                       \/ Val(b.score) < ScoreLow \/ Val(b.score) > ScoreHigh
                       \/ IsNull(b.odds)
                       \/ Val(b.odds) < OddsLow \/ Val(b.odds) > OddsHigh
                       \/ IsNull(b.bet_type) \/ IsNull(b.bet_line)
                       \/ IsNull(b.date))
                   => r \in raw_ocr_bets']_vars

\* C16 witness: an import has unflagged one row of its table and left
\* another row of the same table, whose player is still unknown, flagged
\* and non-voided
C16_FailingRowStillFlagged ==
    /\ last.op = "update_reviewed_entries"
    /\ \E r1, r2 \in raw_ocr_bets :
           /\ r1.id \in last.ids /\ r2.id \in last.ids
           /\ r1.needs_review = 0
           /\ r2.needs_review = 1 /\ r2.is_voided = 0 /\ IsNull(r2.player_id)
           /\ \E b \in last.rows : b.id = r2.id /\ IsNull(b.player)

\* C17: process_image stores every line of an image with needs_review equal
\* to the OR of the per-line verdicts of the classifier, and afterwards all
\* non-voided rows of one image have the same needs_review.
C17_ImageSharesDisposition ==
    [][/\ \A img \in Images, entries \in SlipReads :
              ProcessImageFresh(img, entries) =>
                  \A n \in raw_ocr_bets' \ raw_ocr_bets :
                      n.needs_review =
                          IF \E i \in 1..Len(entries) :
                                 BetNeedsReview(entries[i], RosterFeed)
                          THEN 1 ELSE 0
       /\ \A r1, r2 \in raw_ocr_bets' :
              (/\ r1.image_source = r2.image_source
               /\ r1.is_voided = 0 /\ r2.is_voided = 0)
              => r1.needs_review = r2.needs_review]_vars

\* C18: when the stats service answers without a transport error and its
\* game log (empty or not) has no row for the date of the candidate, the
\* step leaves an unplayed_bets row for the candidate, marks the candidate
\* processed and writes no bet_results row for it.
C18_NoGameIsRecordedUnplayed ==
    [][\A ans \in ApiAnswers :
           (SettleApiNoGame(ans) \/ SettleApiEmptyLog(ans)) =>
               LET c == Head(todo)
               IN  /\ \E u \in unplayed_bets' : u.raw_bet_id = c.id
                   /\ \/ c.id \in pending'
                      \/ \E r \in raw_ocr_bets' :
                             r.id = c.id /\ r.is_processed = 1
                   /\ ~\E b \in bet_results' : b.raw_bet_id = c.id]_vars

\* C19: when settling one candidate raises an exception that is not a
\* transport failure (an empty game log, or insert_into_bet_results raising
\* so that no result is written), the candidate stays unmarked and gets no
\* result, the run goes on with the next candidate, and every other
\* candidate keeps its state, the processed marks of the candidates settled
\* earlier in the run included.
C19_SkippedCandidateLeavesOthers ==
    [][(\/ \E ans \in ApiAnswers : SettleApiEmptyLog(ans)
        \/ /\ SettleFromCache \/ \E ans \in ApiAnswers : SettleApiGame(ans)
           /\ bet_results' = bet_results)
       => LET c == Head(todo)
          IN  /\ c.id \notin pending'
              /\ \A r \in raw_ocr_bets' : r.id = c.id => r.is_processed = 0
              /\ bet_results' = bet_results
              /\ pc' = "running" /\ todo' = Tail(todo)
              /\ \A r \in Flush(raw_ocr_bets, pending) :
                     r.id # c.id => r \in Flush(raw_ocr_bets', pending')]_vars

\* C20: no step removes a stored candidate: the set of ids in raw_ocr_bets
\* only grows.
C20_CandidateIdsOnlyGrow ==
    [][{r.id : r \in raw_ocr_bets} \subseteq {r.id : r \in raw_ocr_bets'}]_vars

\* C21: after _cache_player_data a player is stored as active exactly when
\* its name is in the feed, and no row of players is removed (also when a
\* player leaves the feed and comes back in a later one).
C21_ActiveIffInFeed ==
    [][last'.op = "_cache_player_data" =>
           /\ \A n \in {f.name : f \in FeedPlayers} :
                  (\E p \in players' : p.name = n /\ p.is_active = 1)
                  <=> (\E f \in last'.rows : f.name = n)
           /\ \A p \in players : \E q \in players' : q.name = p.name]_vars

\* C22: after an upload batch that is applied, the stored aggregate of each
\* bucket of the batch is the sum of the result deltas and the number of all
\* uploaded bets of the bucket, and the worksheet shows the same; from
\* (0, 0) the batches (+100, 1) and (-50, 1) leave (50, 2).
C22_AggregateIsSumOfApplied ==
    [][(last'.op = "upload_to_sheets" /\ last'.ids # {}) =>
           \A g \in last'.rows :
               LET done == {b \in bet_results' :
                               /\ b.is_uploaded = 1
                               /\ b.bet_type = g.bet_type
                               /\ b.score_range = g.score_range}
                   rc == <<g.bet_type, g.score_range, "Result">>
                   vc == <<g.bet_type, g.score_range, "Volume">>
               IN  /\ aggregated_results'[rc] = Some(SumDeltas(done))
                   /\ aggregated_results'[vc] = Some(Cardinality(done))
                   /\ sheet'[rc] = SumDeltas(done)
                   /\ sheet'[vc] = Cardinality(done)
                   /\ ({b.result_delta : b \in done} = {100, -50}
                       /\ Cardinality(done) = 2)
                      => /\ aggregated_results'[rc] = Some(50)
                         /\ aggregated_results'[vc] = Some(2)]_vars

\* C22 witness: the second applied batch of the bucket (points, 25-30) was
\* (-50, 1) after a first one of (+100, 1), and the stored aggregate is
\* (50, 2)
C22_FiftyAfterTwoBatches ==
    /\ last.op = "upload_to_sheets"
    /\ last.rows = {[bet_type |-> "points", score_range |-> "25-30",
                     ResultSum |-> -50, Count |-> 1]}
    /\ \E b \in bet_results :
           b.result_delta = 100 /\ b.is_uploaded = 1 /\ b.raw_bet_id \notin last.ids
    /\ aggregated_results[<<"points", "25-30", "Result">>] = Some(50)
    /\ aggregated_results[<<"points", "25-30", "Volume">>] = Some(2)

\* C23: when the stats service raises a transport or timeout error for a
\* candidate, the run ends at that step: the step writes no bet_results
\* and no unplayed_bets row, the candidate stays unprocessed, and nothing
\* is settled any more until the run has returned.
C23_TransportErrorStopsRun ==
    [][/\ \A ans \in ApiAnswers :
              SettleApiTimeout(ans) =>
                  LET c == Head(todo)
                  IN  /\ pc' = "done" /\ outcome' = "exit"
                      /\ bet_results' = bet_results
                      /\ unplayed_bets' = unplayed_bets
                      /\ game_stats' = game_stats
                      /\ c.id \notin pending'
                      /\ \A r \in raw_ocr_bets' :
                             r.id = c.id => r.is_processed = 0
       /\ outcome = "exit" =>
              /\ Tables' = Tables
              /\ pending' = pending]_vars

\* C23 witness: a run has ended on a transport error with the failing
\* candidate and a later one still in the list, both unprocessed and
\* without result or unplayed row
C23_RunStoppedBeforeLaterCandidate ==
    /\ pc = "done" /\ outcome = "exit"
    /\ Len(todo) >= 2
    /\ \A i \in 1..Len(todo) :
           /\ \E r \in raw_ocr_bets : r.id = todo[i].id /\ r.is_processed = 0
           /\ ~\E b \in bet_results : b.raw_bet_id = todo[i].id
           /\ ~\E u \in unplayed_bets : u.raw_bet_id = todo[i].id

\* C24: update_reviewed_entries voids a candidate only if its id was in the
\* export the table was made from; rows flagged after that export are not
\* voided by the import.
C24_OnlyExportedIdsAreVoided ==
    [][last'.op = "update_reviewed_entries" =>
           \A o \in raw_ocr_bets, r \in raw_ocr_bets' :
               (o.id = r.id /\ o.is_voided = 0 /\ r.is_voided = 1)
               => /\ ~IsNull(csv)
                  /\ r.id \in {x.id : x \in Val(csv)}]_vars

\* C25: when settlement runs are repeated and the stats service keeps
\* answering without transport errors, every unflagged, non-voided
\* candidate is eventually processed.
C25_EveryCandidateEventuallyProcessed ==
    \A i \in 1..MaxBets :
        (\E r \in raw_ocr_bets :
             r.id = i /\ r.needs_review = 0 /\ r.is_voided = 0)
        ~> (\E r \in raw_ocr_bets : r.id = i /\ r.is_processed = 1)

\* C26: a value that clean_data cannot convert (odds that are no integer
\* after the sign repair, a date token that is no calendar date) leaves only
\* that field unresolved: every record extracted from the text is still
\* persisted for the image.
C26_ConversionFailureKeepsRecords ==
    [][last'.op = "process_image"
       => \A x \in last'.rows :
              \E r \in raw_ocr_bets' :
                  /\ r.image_source = last'.image
                  /\ r.score = x[2].score
                  /\ r.bet_line = CleanLine(x[2].bet_line)]_vars

\* C27: the extractor emits one record per matched score/line/odds triple,
\* and the records of a block share the first date token and the bet type.
C27_OneRecordPerTriple ==
    [][last'.op = "process_image"
       => \A text \in last'.ids :
              LET triples == SelectSeq(text, IsTripleToken)
                  dates == SelectSeq(text, IsDateToken)
              IN  /\ dates # <<>>
                     => Cardinality(last'.rows) = Len(triples)
                  /\ \A x, y \in last'.rows :
                         /\ x[2].date = Some(dates[1].str)
                         /\ x[2].bet_type = y[2].bet_type]_vars

\* C28: when the number of extracted player names differs from the number
\* of score/line/odds triples, no emitted record carries both a resolved
\* player and a resolved score, line or odds, and the shorter list is
\* unresolved in every position beyond its own length.
C28_NoPairingWhenCountsDiffer ==
    [][last'.op = "process_image"
       => \A text \in last'.ids :
              LET np == Len(FindPlayersInText(text, AllPlayers))
                  nt == Len(SelectSeq(text, IsTripleToken))
              IN  np # nt
                  => \A x \in last'.rows :
                         /\ ~(/\ ~IsNull(x[2].player)
                              /\ \/ ~IsNull(x[2].score)
                                 \/ ~IsNull(x[2].bet_line)
                                 \/ ~IsNull(x[2].odds))
                         /\ x[1] > np => IsNull(x[2].player)
                         /\ x[1] > nt => /\ IsNull(x[2].score)
                                         /\ IsNull(x[2].bet_line)
                                         /\ IsNull(x[2].odds)]_vars

\* a text with one name and two triples has been extracted: two records,
\* both without player, each with its score
C28_OneNameTwoTriples ==
    /\ last.op = "process_image"
    /\ \E text \in last.ids :
           /\ Len(FindPlayersInText(text, AllPlayers)) = 1
           /\ Len(SelectSeq(text, IsTripleToken)) = 2
    /\ Cardinality(last.rows) = 2
    /\ \A x \in last.rows : IsNull(x[2].player) /\ ~IsNull(x[2].score)

\* C30: a player whose name appears once in the text is extracted once: a
\* text with one date, one printed name of the roster or of the alias list
\* and one triple yields one record, with player and score both resolved.
C30_NameExtractedOnce ==
    [][last'.op = "process_image"
       => \A text \in last'.ids :
              (/\ Len(SelectSeq(text, IsDateToken)) = 1
               /\ Len(SelectSeq(text, IsTripleToken)) = 1
               /\ Cardinality({i \in 1..Len(text) : text[i].kind = "word"}) = 1)
              => /\ Cardinality(last'.rows) = 1
                 /\ \A x \in last'.rows :
                        ~IsNull(x[2].player) /\ ~IsNull(x[2].score)]_vars

\* C29: the classifier used when reviewed rows are merged gives the same
\* verdict and the same reasons as the classifier used at extraction, for
\* every record over the same roster; for a name that is not in the roster
\* and for a stored, inactive player neither raises.
C29_ClassifiersAgree ==
    last.op = "bet_needs_review" =>
        /\ ~last.at_review.raised
        /\ last.at_review.needs_review = last.at_extraction.needs_review
        /\ last.at_review.reasons = last.at_extraction.reasons

\* C31: in every reachable state every candidate with is_processed = 1 has
\* exactly one of a bet_results row and an unplayed_bets row, and every
\* candidate has at most one bet_results row.
C31_ProcessedHasExactlyOneOutcome ==
    \A r \in raw_ocr_bets :
        /\ r.is_processed = 1
           => (\E b \in bet_results : b.raw_bet_id = r.id)
              # (\E u \in unplayed_bets : u.raw_bet_id = r.id)
        /\ Cardinality({b \in bet_results : b.raw_bet_id = r.id}) <= 1

\* C32: every persisted bet_results row with result Win has result_delta
\* 100 and every one with result Loss has a result_delta below 0, whatever
\* odds in [-1000, 1000] the candidate carries.
C32_LossDeltaIsNegative ==
    \A b \in bet_results :
        /\ b.result = "Win" => b.result_delta = 100
        /\ b.result = "Loss" => b.result_delta < 0

\* C33: in every reachable state no candidate has needs_review = 1 together
\* with is_voided = 1: a candidate voided by a review import is no longer
\* flagged for review.
C33_VoidedIsNotFlagged ==
    \A r \in raw_ocr_bets : ~(r.needs_review = 1 /\ r.is_voided = 1)

\* C34: upload_to_sheets(dry_run=True) changes nothing: the worksheet, the
\* is_uploaded flag of every bet_results row and the table
\* aggregated_results are after the call what they were before it.
C34_DryRunChangesNothing ==
    [][(\E sink \in UploadOutcomes : UploadToSheets(TRUE, sink))
       => /\ sheet' = sheet
          /\ bet_results' = bet_results
          /\ aggregated_results' = aggregated_results]_vars

C36_OutcomeRowsReferToCandidate ==
    /\ \A u \in unplayed_bets : \E r \in raw_ocr_bets : r.id = u.raw_bet_id
    /\ \A b \in bet_results :
           \E r \in raw_ocr_bets :
               /\ r.id = b.raw_bet_id
               /\ \E g \in game_stats :
                      /\ g.id = b.game_stats_id
                      /\ Some(g.player_id) = r.player_id
                      /\ Some(g.date) = r.date


\* C37: over any sequence of upload runs the delta of a bet_results row is
\* added to its worksheet cell at most once: a run includes no row with
\* is_uploaded = 1 in its batch, and a run that writes its batch to the
\* worksheet leaves every row of the batch with is_uploaded = 1.
C37_DeltaAddedOnce ==
    [][(last = NoCall /\ last'.op = "upload_to_sheets") =>
           LET bets == UnuploadedBets
           IN  /\ \A b \in bets : b.is_uploaded = 0
               /\ sheet' # sheet =>
                      \A b \in bets :
                          \E u \in bet_results' :
                              u.raw_bet_id = b.raw_bet_id /\ u.is_uploaded = 1]_vars


\* C38: a step of a settlement run changes of a candidate nothing but
\* is_processed (needs_review, is_voided, player, bet type, score, bet line,
\* odds and date stay, no candidate appears or disappears); a review import
\* changes no candidate's is_processed and leaves game_stats, bet_results
\* and unplayed_bets as they are.
C38_WritersKeepToTheirFields ==
    [][/\ (pc # "idle" \/ pc' # "idle") =>
              /\ {r.id : r \in raw_ocr_bets'} = {r.id : r \in raw_ocr_bets}
              /\ \A r \in raw_ocr_bets :
                     \E n \in raw_ocr_bets' :
                         n = [r EXCEPT !.is_processed = n.is_processed]
       /\ (last = NoCall /\ last'.op = "update_reviewed_entries") =>
              /\ \A r \in raw_ocr_bets :
                     \A n \in raw_ocr_bets' :
                         n.id = r.id => n.is_processed = r.is_processed
              /\ game_stats' = game_stats
              /\ bet_results' = bet_results
              /\ unplayed_bets' = unplayed_bets]_vars

\* C38 witness: a review import has rewritten a candidate after a settlement
\* run has settled one and committed its is_processed
C38_ImportAfterSettlement ==
    /\ last.op = "update_reviewed_entries"
    /\ last.ids # {}
    /\ bet_results # {}
    /\ \E r \in raw_ocr_bets : r.is_processed = 1 /\ HasOutcomeRow(r.id)


\* C39: _calculate_score_range puts a score s with 20 <= s < 50 into the
\* 5-point bucket whose lower bound is the largest multiple of 5 not above s
\* (lower bound included, upper bound excluded: 25 goes to "25-30"), a score
\* of 50 or more into "50+", and raises for a score below 20; every score
\* from 20 to 100 gets one of the seven buckets.
C39_ScoreRangeBuckets ==
    last.op = "_calculate_score_range" =>
        LET s == last.score
            label == [lo \in {20, 25, 30, 35, 40, 45} |->
                         CASE lo = 20 -> "20-25" [] lo = 25 -> "25-30"
                           [] lo = 30 -> "30-35" [] lo = 35 -> "35-40"
                           [] lo = 40 -> "40-45" [] lo = 45 -> "45-50"]
        IN  /\ s < 2000 => last.ret = "raise"
            /\ (2000 <= s /\ s < 5000) => last.ret = label[5 * (s \div 500)]
            /\ s >= 5000 => last.ret = "50+"
            /\ (ScoreLow <= s /\ s <= ScoreHigh) => last.ret \in ScoreRanges
            /\ s = 2500 => last.ret = "25-30"

\* C39 witness: the score 25 has been put into "25-30"
C39_TwentyFiveInUpperBucket ==
    /\ last.op = "_calculate_score_range"
    /\ last.score = 2500
    /\ last.ret = "25-30"


\* C40: the bet type of an extracted block is the label of the earliest
\* search string of ORDERED_OCR_BET_TYPES that the text contains once it is
\* lower-cased and the white space around '+' is taken out; a text that
\* contains Pts+Reb+Ast, however spaced and in whatever case, gives par and
\* none of pts_rebs, pts_asts, rebs_asts; a text that contains no search
\* string gives a block without bet type, which is extracted all the same.
C40_EarliestLabelWins ==
    last.op = "process_image" =>
        \A text \in last.ids :
            LET letters == SelectSeq(Lower(TypeText(text)),
                                     LAMBDA ch : ch # " ")
                n == Len(OrderedOcrBetTypes)
                has == {i \in 1..n :
                           Occurrences(Lower(LabelChars(OrderedOcrBetTypes[i])),
                                       letters) # {}}
                types == {r[2].bet_type : r \in last.rows}
            IN  /\ last.rows # {}
                /\ 1 \in has => types = {Some("par")}
                /\ \A i \in 1..n :
                       types = {Some(TypeReplacements(OrderedOcrBetTypes[i]))} =>
                           i \in has /\ \A j \in 1..(i - 1) : j \notin has
                /\ has = {} <=> types = {NULL}

\* C40 witness: Pts + Reb + Ast was printed in five pieces and the block was
\* extracted as par
C40_SpacedThreeWay ==
    /\ last.op = "process_image"
    /\ \E text \in last.ids :
           /\ Len(text) = 8
           /\ \A i \in 1..5 :
                  text[i].chars = <<<<"P", "t", "s">>, <<"+">>, <<"R", "e", "b">>,
                                    <<"+">>, <<"A", "s", "t">>>>[i]
    /\ \E r \in last.rows : r[2].bet_type = Some("par")
    /\ \E r \in raw_ocr_bets : r.bet_type = Some("par")

====
